---- MODULE Spec2Model ----
(***************************************************************************)
(* Playback orchestration of the yO3 platform front end.                   *)
(*                                                                         *)
(* Spec   : UniversalSecurePlayer (src/frontend/src/types/index.ts) with   *)
(*          the two Web Workers it starts (data.worker for the master      *)
(*          strategy, stream.worker for the seed strategy), the key store  *)
(*          it reads and the content source it fetches from.               *)
(* SpecVP : VideoPlayer (src/unnamed/part_007) with its stream.worker.     *)
(* SpecPairing  : DevicePairing (components/DevicePairing.tsx) with its    *)
(*          WebSocket and the key store it writes.                         *)
(* SpecKeyStore : KeyStorageService (src/frontend/src/obj.ts) under        *)
(*          interleaved calls of its methods.                              *)
(* SpecWorker   : one worker (stream.worker, crypto.worker or data.worker) *)
(*          under any messages posted to it.                               *)
(* SpecNetwork  : one pairing and one player next to each other, with what *)
(*          they send.                                                     *)
(* SpecAuth     : ApiService login / register / logout (obj.ts) with the   *)
(*          localStorage entries it writes.                                *)
(* SpecDetection: DetectionEventService (obj.ts) over its WebSocket, with  *)
(*          its reconnect timers.                                          *)
(* SpecLogger   : RequestLoggerService (services/requestLogger.ts).        *)
(* SpecTelemetry: one WebSocketClient of the telemetry service             *)
(*          (services/telemetryService.ts) with its reconnect timers.      *)
(***************************************************************************)
EXTENDS Integers, Sequences, FiniteSets, TLC

\* Bound on the number of loadVideo invocations of one player instance
\* (the mount, every reconfiguration and every Retry is one invocation).
MaxLoads == 2

\* The same bound for SpecDeep, which follows one instance through a Retry
\* and a reconfiguration, and its bound on reconfigurations.
DeepLoads == 3
DeepReconfig == 1

\* Minimum seed length accepted by the stream worker.
MinSeedLen == 32

NoVal == ""
\* Key bytes; NoKey stands for null (no record, no key derived).
NoKey == [kind |-> "none", id |-> NoVal]
RawKey(id) == [kind |-> "raw", id |-> id]

ShortSeed == "short-seed"
LongSeed == "0123456789abcdef0123456789abcdef"

\* Key derivation of the stream worker: PBKDF2 over the seed with a fixed
\* salt, iteration count and hash, i.e. a function of the seed alone.
DeriveKey(seed) == [kind |-> "pbkdf2", id |-> seed]

Devices == {"D1"}
MasterKeys == {RawKey("K1")}
\* Keys a buffer of the content source may have been encrypted under.
BufferKeys == {RawKey("K1"), DeriveKey(LongSeed)}
\* An encrypted buffer, by the key it was encrypted under; NoBuf: none.
NoBuf == [encKey |-> NoKey]

Modes == {"archive", "live"}
Strategies == {"master", "seed"}

\* The props a host passes: each of the four inputs present or absent,
\* the locator of the other mode and the key input of the other strategy
\* (which the player never reads) left out.
PropsSet ==
  {p \in [mode : Modes, keyStrategy : Strategies, videoId : {NoVal, "C1"},
           streamUrl : {NoVal, "S1"}, deviceId : {NoVal, "D1"},
           seedKey : {NoVal, ShortSeed, LongSeed}] :
     /\ p.mode = "archive" => p.streamUrl = NoVal
     /\ p.mode = "live" => p.videoId = NoVal
     /\ p.keyStrategy = "master" => p.seedKey = NoVal
     /\ p.keyStrategy = "seed" => p.deviceId = NoVal}

\* The props of archive mode.
ArchiveProps == {p \in PropsSet : p.mode = "archive"}

\* The props of live mode, and those of archive mode with the master
\* strategy that pass the validation.
LiveProps ==
  {p \in PropsSet : p.mode = "live" \/ (p.videoId # NoVal /\ p.deviceId # NoVal)}

VARIABLES
  props,        \* the props of the current render
  mounted,      \* the component is mounted (videoRef.current is set)
  session,      \* number of the current session (run of the load effect)
  status, error, progress,   \* React state
  workerRef, blobUrlRef,     \* refs (0 = null)
  videoSrc,     \* videoRef.current.src as a blob number (0 = none)
  tasks,        \* one record per loadVideo invocation
  workers,      \* workers[i] is the worker created by invocation i
  blobs,        \* blobs[i]: object URL created by invocation i
  keys,         \* key store: the records of the object store 'keys'
  vp,           \* the VideoPlayer component and its worker
  dp,           \* the DevicePairing component and its connections
  ks,           \* the KeyStorageService: its calls and their outcomes
  svc           \* the singleton services: ApiService with the localStorage
                \* it writes, DetectionEventService, RequestLoggerService
                \* and a WebSocketClient of the telemetry service

vars == <<props, mounted, session, status, error, progress, workerRef,
          blobUrlRef, videoSrc, tasks, workers, blobs, keys, vp, dp, ks, svc>>

uvars == <<props, mounted, session, status, error, progress, workerRef,
           blobUrlRef, videoSrc, tasks, workers, blobs, keys, dp, ks, svc>>

\* The variables of the players, without the key store.
pvars == <<props, mounted, session, status, error, progress, workerRef,
           blobUrlRef, videoSrc, tasks, workers, blobs, vp, svc>>

----------------------------------------------------------------------------
\* KeyStorageService: the records of the object store, by their key path
\* 'id'.  The field createdAt of a record is never read and is left out.

KeyPrefix == "master-key-"

\* Faulty variant: the device id is left out of the record id.
RecordIdShared(d) == KeyPrefix

\* `master-key-${deviceId}`
RecordId(d) == KeyPrefix \o d

HasRecord(store, d) == \E r \in store : r.id = RecordId(d)

\* Faulty variant: a record that exists is kept (add instead of put).
PutRecordKeepsOld(store, k, d) ==
  IF \E r \in store : r.id = KeyPrefix \o d
  THEN store
  ELSE store \cup {[id |-> KeyPrefix \o d, keyData |-> k]}

\* Faulty variant: the record is added next to the one of that id.
PutRecordAdds(store, k, d) == store \cup {[id |-> RecordId(d), keyData |-> k]}

\* store.put({id, keyData, createdAt}): replaces the record of that id.
PutRecord(store, k, d) ==
  {r \in store : r.id # RecordId(d)} \cup {[id |-> RecordId(d), keyData |-> k]}

\* Faulty variant: the record is left in place.
DeleteRecordKeeps(store, d) == store

\* store.delete(id): succeeds whether or not there is such a record.
DeleteRecord(store, d) == {r \in store : r.id # RecordId(d)}

\* store.get(id) and `result ? result.keyData : null`.
GetRecord(store, d) ==
  LET rs == {r \in store : r.id = RecordId(d)}
  IN IF rs = {} THEN NoKey ELSE (CHOOSE r \in rs : TRUE).keyData

\* The record ids that occur, in the ascending order of IndexedDB keys.
SortedIds == <<KeyPrefix \o "D1", KeyPrefix \o "D2">>

\* store.getAllKeys(): the ids of the records, ascending.
GetAllKeys(store) ==
  SelectSeq(SortedIds, LAMBDA id : \E r \in store : r.id = id)

\* k.startsWith(p)
StartsWith(s, p) == Len(s) >= Len(p) /\ SubSeq(s, 1, Len(p)) = p

\* Faulty variant: the id is returned as it is.
ReplaceFirstNone(s, p) == s

\* k.replace(p, ''): the first occurrence of p is taken out.
ReplaceFirst(s, p) ==
  LET at == {i \in 1..(Len(s) - Len(p) + 1) : SubSeq(s, i, i + Len(p) - 1) = p}
  IN IF at = {} THEN s
     ELSE LET i == CHOOSE x \in at : \A y \in at : x <= y
          IN SubSeq(s, 1, i - 1) \o SubSeq(s, i + Len(p), Len(s))

\* listDevices: keys.filter(startsWith 'master-key-').map(replace).
ListDevices(store) ==
  LET ids == SelectSeq(GetAllKeys(store), LAMBDA id : StartsWith(id, KeyPrefix))
  IN [i \in 1..Len(ids) |-> ReplaceFirst(ids[i], KeyPrefix)]

----------------------------------------------------------------------------
\* Workers

NoWorker == [kind |-> "none", alive |-> FALSE, inbox |-> <<>>, pending |-> <<>>,
             outbox |-> <<>>, seedKey |-> NoVal, processorKey |-> NoKey,
             handler |-> "none",
             \* history: INIT_SUCCESS reached the main thread; a decrypt
             \* request was posted before it did
             acked |-> FALSE, early |-> FALSE]

\* new Worker(data.worker.ts): the script ends by posting 'loaded'.
NewDataWorker == [NoWorker EXCEPT !.kind = "data", !.alive = TRUE,
                                  !.outbox = <<[type |-> "loaded"]>>]

\* new Worker(stream.worker.ts)
NewStreamWorker == [NoWorker EXCEPT !.kind = "stream", !.alive = TRUE]

\* new Worker(crypto.worker.ts)
NewCryptoWorker == [NoWorker EXCEPT !.kind = "crypto", !.alive = TRUE]

\* The key crypto.worker derives from a seed: PBKDF2 as in stream.worker,
\* with another salt.
DeriveCryptoKey(seed) == [kind |-> "pbkdf2-aes-salt", id |-> seed]

\* Faulty variant: the message is posted twice.
PostMessageTwice(w, m) == IF w.alive THEN [w EXCEPT !.inbox = Append(Append(@, m), m)] ELSE w

\* worker.postMessage(m): a terminated worker receives nothing.
PostMessage(w, m) == IF w.alive THEN [w EXCEPT !.inbox = Append(@, m)] ELSE w

\* worker.terminate()
Terminate(w) == [w EXCEPT !.alive = FALSE]

\* Faulty variant: the authentication tag is not verified.
DecryptsUnverified(buf, key) == TRUE

\* AES-GCM decryption: the authentication tag verifies only under the key
\* the buffer was encrypted with; then the whole plaintext is returned.
Decrypts(buf, key) == buf.encKey = key

\* History: a decrypt request was posted to w, before or after its INIT
\* was acknowledged.
NotePosted(w) == [w EXCEPT !.early = @ \/ (w.kind = "stream" /\ ~w.acked)]

RemoveAt(s, n) == SubSeq(s, 1, n - 1) \o SubSeq(s, n + 1, Len(s))

----------------------------------------------------------------------------
\* UniversalSecurePlayer: the effects and loadVideo up to its first await

\* The validation effect: one error per violated requirement, in the order
\* of the four checks; each sets error and status and invokes onError.
ValidationErrors(p) ==
  (IF p.mode = "archive" /\ p.videoId = NoVal
     THEN <<"videoId is required for archive mode">> ELSE <<>>) \o
  (IF p.mode = "live" /\ p.streamUrl = NoVal
     THEN <<"streamUrl is required for live mode">> ELSE <<>>) \o
  (IF p.keyStrategy = "master" /\ p.deviceId = NoVal
     THEN <<"deviceId is required for master key strategy">> ELSE <<>>) \o
  (IF p.keyStrategy = "seed" /\ p.seedKey = NoVal
     THEN <<"seedKey is required for seed key strategy">> ELSE <<>>)

Quiescent(t, w) ==
  \/ t.pc = "done"
  \/ t.pc \in {"awaitInit", "awaitDecrypt"} /\ ~w.alive

NewTask(p, pc, ws, sn) ==
  [p |-> p, session |-> sn, pc |-> pc, cryptoKey |-> NoKey,
   fetched |-> (pc = "awaitLiveFetch"), buf |-> NoBuf,
   validation |-> <<>>, failure |-> NoVal, reported |-> NoVal,
   alone |-> \A j \in DOMAIN tasks : Quiescent(tasks[j], ws[j])]

\* Faulty variant: live mode starts a stream worker as archive mode does.
LoadOutcomeLiveWorker(p, tok) ==
  IF p.mode = "archive" THEN
    IF p.videoId = NoVal THEN
      [pc |-> "done", worker |-> NoWorker, progress |-> 10, thrown |-> NoVal]
    ELSE IF p.keyStrategy = "master" /\ p.deviceId # NoVal THEN
      [pc |-> "awaitKey", worker |-> NewDataWorker, progress |-> 20, thrown |-> NoVal]
    ELSE IF p.keyStrategy = "seed" /\ p.seedKey # NoVal THEN
      [pc |-> "awaitInit",
       worker |-> [PostMessage(NewStreamWorker, [type |-> "INIT", seedKey |-> p.seedKey])
                     EXCEPT !.handler = "init"],
       progress |-> 20, thrown |-> NoVal]
    ELSE
      [pc |-> "done",
       worker |-> IF p.keyStrategy = "master" THEN NewDataWorker ELSE NewStreamWorker,
       progress |-> 20, thrown |-> "Invalid key configuration"]
  ELSE
    IF p.streamUrl = NoVal THEN
      [pc |-> "done", worker |-> NoWorker, progress |-> 10, thrown |-> NoVal]
    ELSE IF ~tok THEN
      [pc |-> "done", worker |-> NoWorker, progress |-> 10,
       thrown |-> "Not authenticated - token required"]
    ELSE
      [pc |-> "awaitLiveFetch", worker |-> NewStreamWorker, progress |-> 50,
       thrown |-> NoVal]

\* What one call of loadVideo does before it first yields, for props p;
\* tok says whether localStorage holds a token.  A throw inside the
\* synchronous part is caught by loadVideo in the same turn.
LoadOutcome(p, tok) ==
  IF p.mode = "archive" THEN
    IF p.videoId = NoVal THEN
      [pc |-> "done", worker |-> NoWorker, progress |-> 10, thrown |-> NoVal]
    ELSE IF p.keyStrategy = "master" /\ p.deviceId # NoVal THEN
      [pc |-> "awaitKey", worker |-> NewDataWorker, progress |-> 20, thrown |-> NoVal]
    ELSE IF p.keyStrategy = "seed" /\ p.seedKey # NoVal THEN
      [pc |-> "awaitInit",
       worker |-> [PostMessage(NewStreamWorker, [type |-> "INIT", seedKey |-> p.seedKey])
                     EXCEPT !.handler = "init"],
       progress |-> 20, thrown |-> NoVal]
    ELSE
      [pc |-> "done",
       worker |-> IF p.keyStrategy = "master" THEN NewDataWorker ELSE NewStreamWorker,
       progress |-> 20, thrown |-> "Invalid key configuration"]
  ELSE
    IF p.streamUrl = NoVal THEN
      [pc |-> "done", worker |-> NoWorker, progress |-> 10, thrown |-> NoVal]
    ELSE IF ~tok THEN
      [pc |-> "done", worker |-> NoWorker, progress |-> 10,
       thrown |-> "Not authenticated - token required"]
    ELSE
      [pc |-> "awaitLiveFetch", worker |-> NoWorker, progress |-> 50, thrown |-> NoVal]

\* Faulty variant: the previous error text is not cleared.
LoadVideoKeepsError(p, tok, pre, ws, wref, sn) ==
  LET o == LoadOutcome(p, tok)
      i == Len(tasks) + 1
  IN /\ tasks' = Append(tasks, [NewTask(p, o.pc, ws, sn) EXCEPT
                                  !.validation = pre,
                                  !.failure = o.thrown,
                                  !.reported = o.thrown])
     /\ workers' = Append(ws, o.worker)
     /\ workerRef' = IF o.worker.kind # "none" THEN i ELSE wref
     /\ progress' = o.progress
     /\ IF o.thrown # NoVal
          THEN /\ status' = "error"
               /\ error' = o.thrown
          ELSE /\ status' = "loading"
               /\ error' = error

\* loadVideo(): status 'loading', progress 10, error '', then the branch.
\* pre is the list of reasons the validation effect of the same commit
\* passed to onError (empty for Retry); ws and wref are the workers and
\* workerRef as the cleanup that ran before (if any) left them.
LoadVideo(p, tok, pre, ws, wref, sn) ==
  LET o == LoadOutcome(p, tok)
      i == Len(tasks) + 1
  IN /\ tasks' = Append(tasks, [NewTask(p, o.pc, ws, sn) EXCEPT
                                  !.validation = pre,
                                  !.failure = o.thrown,
                                  !.reported = o.thrown])
     /\ workers' = Append(ws, o.worker)
     /\ workerRef' = IF o.worker.kind # "none" THEN i ELSE wref
     /\ progress' = o.progress
     /\ IF o.thrown # NoVal
          THEN /\ status' = "error"
               /\ error' = o.thrown
          ELSE /\ status' = "loading"
               /\ error' = NoVal

\* cleanup(): terminate workerRef.current, revoke blobUrlRef.current, and
\* revoke the blob URL the video element shows, if the element is there.
CleanupWorkers == [j \in DOMAIN workers |->
                     IF j = workerRef THEN Terminate(workers[j]) ELSE workers[j]]

CleanupBlobs(hasVideo) ==
  [j \in DOMAIN blobs |->
     IF blobs[j] = "live" /\ (j = blobUrlRef \/ (hasVideo /\ j = videoSrc))
       THEN "revoked" ELSE blobs[j]]

\* First commit: the validation effect, then the load effect.
Mount ==
  /\ session = 0
  /\ session' = 1
  /\ mounted' = TRUE
  /\ \E tok \in BOOLEAN : LoadVideo(props, tok, ValidationErrors(props), workers, workerRef, 1)
  /\ blobs' = Append(blobs, "none")
  /\ UNCHANGED <<props, blobUrlRef, videoSrc, keys, vp, dp, ks, svc>>

\* A render with different props: the load effect's cleanup runs with the
\* old closure, then the validation effect and the load effect run.
ChangeInputsB(ps, maxLoads, maxReconfig) ==
  /\ mounted
  /\ Len(tasks) < maxLoads
  /\ session <= maxReconfig
  /\ \E p \in ps :
       /\ p # props
       /\ props' = p
       /\ session' = session + 1
       /\ \E tok \in BOOLEAN :
            LoadVideo(p, tok, ValidationErrors(p), CleanupWorkers, 0, session + 1)
       /\ blobs' = Append(CleanupBlobs(TRUE), "none")
       /\ blobUrlRef' = 0
  /\ UNCHANGED <<mounted, videoSrc, keys, vp, dp, ks, svc>>

\* The Retry button, shown while status is 'error': loadVideo() again.
RetryB(maxLoads) ==
  /\ mounted
  /\ Len(tasks) < maxLoads
  /\ status = "error"
  /\ \E tok \in BOOLEAN : LoadVideo(props, tok, <<>>, workers, workerRef, session)
  /\ blobs' = Append(blobs, "none")
  /\ UNCHANGED <<props, mounted, session, blobUrlRef, videoSrc, keys, vp, dp, ks, svc>>

ChangeInputs == ChangeInputsB(PropsSet, MaxLoads, MaxLoads)
Retry == RetryB(MaxLoads)
DeepChangeInputs == ChangeInputsB(PropsSet, DeepLoads, DeepReconfig)
ArchiveChangeInputs == ChangeInputsB(ArchiveProps, MaxLoads, MaxLoads)
LiveChangeInputs == ChangeInputsB(LiveProps, MaxLoads, MaxLoads)
DeepRetry == RetryB(DeepLoads)

\* Unmount: the video element is detached, then the cleanup runs.
Unmount ==
  /\ mounted
  /\ mounted' = FALSE
  /\ workers' = CleanupWorkers
  /\ workerRef' = 0
  /\ blobs' = CleanupBlobs(FALSE)
  /\ blobUrlRef' = 0
  /\ UNCHANGED <<props, session, status, error, progress, videoSrc, tasks, keys, vp, dp, ks, svc>>

----------------------------------------------------------------------------
\* UniversalSecurePlayer: the continuations of loadVideo

\* State setters do nothing once the component is unmounted.
SetUi(st, er, pr) ==
  /\ status' = IF mounted THEN st ELSE status
  /\ error' = IF mounted THEN er ELSE error
  /\ progress' = IF mounted THEN pr ELSE progress

\* The catch block of loadVideo.
Catch(i, reason) ==
  /\ SetUi("error", reason, progress)
  /\ tasks' = [tasks EXCEPT ![i].pc = "done", ![i].failure = reason,
                            ![i].reported = reason]

\* Faulty variant: a missing record yields an empty key instead of null.
GetMasterKeyEmpty(d) ==
  IF HasRecord(keys, d) THEN GetRecord(keys, d) ELSE RawKey(NoVal)

\* keyStorage.getMasterKey(deviceId): the record's key bytes, or null.
GetMasterKey(d) == GetRecord(keys, d)

\* keyStorage.getMasterKey resolves.
KeyLookup(i) ==
  /\ tasks[i].pc = "awaitKey"
  /\ LET masterKey == GetMasterKey(tasks[i].p.deviceId)
     IN IF masterKey = NoKey
          THEN Catch(i, "Master key not found. Please pair device first.")
          ELSE /\ tasks' = [tasks EXCEPT ![i].pc = "awaitFetch",
                                         ![i].cryptoKey = masterKey,
                                         ![i].fetched = TRUE]
               /\ SetUi(status, error, 40)
  /\ UNCHANGED <<props, mounted, session, workerRef, blobUrlRef, videoSrc,
                 workers, blobs, keys, vp, dp, ks, svc>>

\* The request of the fetch of invocation t: the URL, and the headers of
\* the live fetch.
FetchRequest(t) ==
  IF t.p.mode = "archive"
  THEN [url |-> [kind |-> "url", id |-> "/api/stream/" \o t.p.videoId],
        authorization |-> [kind |-> "none", id |-> NoVal]]
  ELSE [url |-> [kind |-> "url", id |-> t.p.streamUrl],
        authorization |-> [kind |-> "bearer", id |-> "token"]]

\* Faulty variant: the key is attached for the wrong strategy.
ProcessMessageKeySwapped(t) ==
  [type |-> IF t.p.keyStrategy = "master" THEN "process" ELSE "PROCESS",
   encodedData |-> t.buf,
   dataKey |-> IF t.p.keyStrategy = "seed" THEN t.cryptoKey ELSE NoKey,
   data |-> IF t.p.keyStrategy = "seed" THEN t.buf ELSE NoBuf]

\* The decrypt request loadArchiveVideo posts once the buffer is there.
ProcessMessage(t) ==
  [type |-> IF t.p.keyStrategy = "master" THEN "process" ELSE "PROCESS",
   encodedData |-> t.buf,
   dataKey |-> IF t.p.keyStrategy = "master" THEN t.cryptoKey ELSE NoKey,
   data |-> IF t.p.keyStrategy = "seed" THEN t.buf ELSE NoBuf]

\* fetch(.../api/stream/videoId) and response.arrayBuffer() settle.
FetchDone(i) ==
  /\ tasks[i].pc = "awaitFetch"
  /\ \/ /\ \E reason \in {"Failed to fetch", "Failed to fetch video: Not Found"} :
             Catch(i, reason)
        /\ UNCHANGED workers
     \/ \E k \in BufferKeys :
          LET t == [tasks[i] EXCEPT !.buf = [encKey |-> k], !.pc = "awaitDecrypt"]
          IN /\ tasks' = [tasks EXCEPT ![i] = t]
             /\ workers' = [workers EXCEPT
                              ![i] = NotePosted(PostMessage([@ EXCEPT !.handler = "process"],
                                                            ProcessMessage(t)))]
             /\ SetUi("processing", error, 70)
  /\ UNCHANGED <<props, mounted, session, workerRef, blobUrlRef, videoSrc,
                 blobs, keys, vp, dp, ks, svc>>

\* fetch(streamUrl) and response.blob() settle (live mode).
LiveFetchDone(i) ==
  /\ tasks[i].pc = "awaitLiveFetch"
  /\ \/ /\ \E reason \in {"Failed to fetch", "HTTP 500: Internal Server Error"} :
             Catch(i, reason)
        /\ UNCHANGED <<blobs, blobUrlRef, videoSrc>>
     \/ /\ tasks' = [tasks EXCEPT ![i].pc = "done"]
        /\ blobs' = [blobs EXCEPT ![i] = "live"]
        /\ blobUrlRef' = i
        /\ videoSrc' = IF mounted THEN i ELSE videoSrc
        /\ SetUi("ready", error, 100)
  /\ UNCHANGED <<props, mounted, session, workerRef, workers, keys, vp, dp, ks, svc>>

----------------------------------------------------------------------------
\* The workers

Reply(w, m) == [w EXCEPT !.outbox = Append(@, m)]

\* data.worker onmessage, up to its first await.  A 'process' request that
\* lacks the buffer or the key matches no branch and gets no reply.
DataWorkerReceive(w, m) ==
  IF m.type = "init" THEN
    Reply(w, [type |-> "ready"])
  ELSE IF m.type = "process" /\ m.encodedData # NoBuf /\ m.dataKey # NoKey THEN
    [w EXCEPT !.pending = Append(@, [op |-> "decrypt", key |-> m.dataKey,
                                     buf |-> m.encodedData])]
  ELSE w

\* Faulty variant: the seed is not checked.
InitializeProcessorUnchecked(w, seed) ==
  [w EXCEPT !.seedKey = seed,
            !.pending = Append(@, [op |-> "derive", seed |-> seed])]

\* Faulty variant: the seed is stored and the key reset before the check.
InitializeProcessorResets(w, seed) ==
  IF seed = NoVal \/ Len(seed) < MinSeedLen THEN
    Reply([w EXCEPT !.seedKey = seed, !.processorKey = NoKey],
          [type |-> "ERROR", error |-> "Seed key must be at least 32 characters"])
  ELSE
    [w EXCEPT !.seedKey = seed,
              !.pending = Append(@, [op |-> "derive", seed |-> seed])]

\* stream.worker initializeProcessor and crypto.worker initializeCrypto, up
\* to the first await.
InitializeProcessor(w, seed) ==
  IF seed = NoVal \/ Len(seed) < MinSeedLen THEN
    Reply(w, [type |-> "ERROR", error |-> "Seed key must be at least 32 characters"])
  ELSE
    [w EXCEPT !.seedKey = seed,
              !.pending = Append(@, [op |-> "derive", seed |-> seed])]

\* Faulty variant: the key is not checked.
ProcessDataAnyKey(w, buf) ==
  IF buf = NoBuf THEN
    Reply(w, [type |-> "ERROR",
              error |-> "Cannot read properties of undefined (reading 'slice')"])
  ELSE
    [w EXCEPT !.pending = Append(@, [op |-> "decrypt", key |-> w.processorKey,
                                     buf |-> buf])]

\* stream.worker processData and crypto.worker decryptData, up to the first
\* await; without a buffer, buffer.slice throws a TypeError.
ProcessData(w, buf) ==
  IF w.processorKey = NoKey THEN
    Reply(w, [type |-> "ERROR",
              error |-> IF w.kind = "crypto"
                        THEN "Crypto key not initialized. Call INIT first."
                        ELSE "Processor key not initialized. Call INIT first."])
  ELSE IF buf = NoBuf THEN
    Reply(w, [type |-> "ERROR",
              error |-> "Cannot read properties of undefined (reading 'slice')"])
  ELSE
    [w EXCEPT !.pending = Append(@, [op |-> "decrypt", key |-> w.processorKey,
                                     buf |-> buf])]

\* stream.worker onmessage, up to its first await.
StreamWorkerReceive(w, m) ==
  IF m.type = "INIT" THEN InitializeProcessor(w, m.seedKey)
  ELSE IF m.type = "PROCESS" THEN ProcessData(w, m.data)
  ELSE Reply(w, [type |-> "ERROR", error |-> "Unknown message type: " \o m.type])

\* crypto.worker onmessage, up to its first await.
CryptoWorkerReceive(w, m) ==
  IF m.type = "INIT" THEN InitializeProcessor(w, m.seedKey)
  ELSE IF m.type = "DECRYPT" THEN ProcessData(w, m.data)
  ELSE Reply(w, [type |-> "ERROR", error |-> "Unknown message type: " \o m.type])

WorkerReceive(w) ==
  LET m == Head(w.inbox)
      r == [w EXCEPT !.inbox = Tail(@)]
  IN IF w.kind = "data" THEN DataWorkerReceive(r, m)
     ELSE IF w.kind = "crypto" THEN CryptoWorkerReceive(r, m)
     ELSE StreamWorkerReceive(r, m)

\* Faulty variant: a failed decryption replies with the part that was
\* processed.
DecryptReplyPartial(w, op) ==
  [type |-> IF w.kind = "data" THEN "processed"
            ELSE IF w.kind = "crypto" THEN "DECRYPT_SUCCESS" ELSE "PROCESS_SUCCESS",
   data |-> IF op.buf.encKey = op.key THEN op.buf ELSE NoBuf]

\* The reply a decryption ends with: the plaintext, or an error.
DecryptReply(w, op) ==
  IF Decrypts(op.buf, op.key) THEN
    [type |-> IF w.kind = "data" THEN "processed"
              ELSE IF w.kind = "crypto" THEN "DECRYPT_SUCCESS" ELSE "PROCESS_SUCCESS",
     data |-> op.buf]
  ELSE
    [type |-> IF w.kind = "data" THEN "error" ELSE "ERROR",
     error |-> IF w.kind = "data" THEN "The operation failed"
               ELSE IF w.kind = "crypto"
                 THEN "Decryption failed. Verify seed key is correct."
               ELSE "Processing failed. Verify seed key is correct."]

\* An awaited WebCrypto operation of the worker settles and the handler
\* runs to its end: the key is kept and INIT_SUCCESS posted, or the
\* decryption's outcome is posted.
WorkerComplete(w, n) ==
  LET op == w.pending[n]
      r == [w EXCEPT !.pending = RemoveAt(@, n)]
  IN IF op.op = "derive"
       THEN Reply([r EXCEPT !.processorKey = IF w.kind = "crypto"
                                               THEN DeriveCryptoKey(op.seed)
                                               ELSE DeriveKey(op.seed)],
                  [type |-> "INIT_SUCCESS"])
       ELSE Reply(r, DecryptReply(r, op))

\* A live worker takes the next message of its queue.
WorkerStep(i) ==
  /\ workers[i].alive
  /\ workers[i].inbox # <<>>
  /\ workers' = [workers EXCEPT ![i] = WorkerReceive(@)]
  /\ UNCHANGED <<props, mounted, session, status, error, progress, workerRef,
                 blobUrlRef, videoSrc, tasks, blobs, keys, vp, dp, ks, svc>>

WorkerFinish(i) ==
  /\ workers[i].alive
  /\ \E n \in DOMAIN workers[i].pending :
       workers' = [workers EXCEPT ![i] = WorkerComplete(@, n)]
  /\ UNCHANGED <<props, mounted, session, status, error, progress, workerRef,
                 blobUrlRef, videoSrc, tasks, blobs, keys, vp, dp, ks, svc>>

----------------------------------------------------------------------------
\* A worker as any caller may use it: whatever message is posted to it

MaxPosts == 4

\* A buffer of which a bit of the nonce, the ciphertext or the tag was
\* altered: its tag verifies under no key.
TamperedBuf == [encKey |-> [kind |-> "tampered", id |-> NoVal]]

\* The buffer encrypted under the key the worker of that kind derives from
\* LongSeed, one encrypted under another key, a tampered one, and none.
TestBuffers(kind) ==
  {NoBuf, TamperedBuf, [encKey |-> RawKey("K1")],
   [encKey |-> IF kind = "crypto" THEN DeriveCryptoKey(LongSeed)
               ELSE DeriveKey(LongSeed)]}

\* event.data of the messages posted to a worker of that kind: its requests
\* with their fields present or absent, and a message of no known type.
WorkerRequests(kind) ==
  IF kind = "data" THEN
    {[type |-> "init"], [type |-> "ping"]} \cup
    {[type |-> "process", encodedData |-> b, dataKey |-> k] :
       b \in TestBuffers(kind), k \in {NoKey, RawKey("K1")}}
  ELSE
    {[type |-> "PING"]} \cup
    {[type |-> "INIT", seedKey |-> sd] : sd \in {NoVal, ShortSeed, LongSeed}} \cup
    {[type |-> IF kind = "crypto" THEN "DECRYPT" ELSE "PROCESS", data |-> b] :
       b \in TestBuffers(kind)}

\* The requests of worker w that are not yet answered, and its replies.
Traffic(w) == Len(w.inbox) + Len(w.pending) + Len(w.outbox)

WorkerPost(i, m) ==
  /\ workers[i].alive
  /\ Traffic(workers[i]) < MaxPosts + (IF workers[i].kind = "data" THEN 1 ELSE 0)
  /\ workers' = [workers EXCEPT ![i] = PostMessage(@, m)]
  /\ UNCHANGED <<props, mounted, session, status, error, progress, workerRef,
                 blobUrlRef, videoSrc, tasks, blobs, keys, vp, dp, ks, svc>>

----------------------------------------------------------------------------
\* Messages of a worker reaching the main thread

IsInitAck(m) == m.type \in {"INIT_SUCCESS", "ready"}
IsProcessed(m) == m.type \in {"processed", "PROCESS_SUCCESS"}
IsWorkerError(m) == m.type \in {"error", "ERROR"}

\* worker.onmessage as set while loadArchiveVideo awaits the INIT
\* handshake: only an acknowledgment resolves the promise; then
\* loadArchiveVideo goes on to the fetch.
OnInitMessage(i, m) ==
  IF IsInitAck(m) /\ tasks[i].pc = "awaitInit"
    THEN /\ tasks' = [tasks EXCEPT ![i].pc = "awaitFetch",
                                   ![i].cryptoKey = DeriveKey(tasks[i].p.seedKey),
                                   ![i].fetched = TRUE]
         /\ SetUi(status, error, 40)
         /\ UNCHANGED <<blobs, blobUrlRef, videoSrc>>
    ELSE UNCHANGED <<tasks, status, error, progress, blobs, blobUrlRef, videoSrc>>

\* worker.onmessage as set before the decrypt request is posted.
OnProcessMessage(i, m) ==
  IF IsProcessed(m)
    THEN /\ blobs' = [blobs EXCEPT ![i] = "live"]
         /\ blobUrlRef' = i
         /\ videoSrc' = IF mounted THEN i ELSE videoSrc
         /\ SetUi("ready", error, 100)
         /\ tasks' = [tasks EXCEPT ![i].pc = "done"]
  ELSE IF IsWorkerError(m)
    THEN /\ SetUi("error", m.error, progress)
         /\ tasks' = [tasks EXCEPT ![i].pc = "done", ![i].failure = m.error]
         /\ UNCHANGED <<blobs, blobUrlRef, videoSrc>>
  ELSE UNCHANGED <<tasks, status, error, progress, blobs, blobUrlRef, videoSrc>>

\* The next message of a live worker is dispatched to worker.onmessage;
\* without a handler it is dropped.
Deliver(i) ==
  /\ workers[i].alive
  /\ workers[i].outbox # <<>>
  /\ LET m == Head(workers[i].outbox)
     IN /\ workers' = [workers EXCEPT
                         ![i].outbox = Tail(@),
                         ![i].acked = @ \/ (workers[i].handler = "init" /\ IsInitAck(m))]
        /\ IF workers[i].handler = "init" THEN OnInitMessage(i, m)
           ELSE IF workers[i].handler = "process" THEN OnProcessMessage(i, m)
           ELSE UNCHANGED <<tasks, status, error, progress, blobs, blobUrlRef,
                            videoSrc>>
  /\ UNCHANGED <<props, mounted, session, workerRef, keys, vp, dp, ks, svc>>

----------------------------------------------------------------------------
\* The key store, as the pairing and the device list change it

StoreMasterKey(k, d) ==
  /\ GetRecord(keys, d) # k
  /\ keys' = PutRecord(keys, k, d)
  /\ UNCHANGED <<props, mounted, session, status, error, progress, workerRef,
                 blobUrlRef, videoSrc, tasks, workers, blobs, vp, dp, ks, svc>>

DeleteMasterKey(d) ==
  /\ HasRecord(keys, d)
  /\ keys' = DeleteRecord(keys, d)
  /\ UNCHANGED <<props, mounted, session, status, error, progress, workerRef,
                 blobUrlRef, videoSrc, tasks, workers, blobs, vp, dp, ks, svc>>

----------------------------------------------------------------------------
\* KeyStorageService as its callers use it: ks.calls[c] is the c-th call of
\* a method, ks.queue the transactions in the order they were created (the
\* order in which IndexedDB runs them), ks.log the settled calls.

MaxKSCalls == 3

KSDevices == {"D1", "D2"}
KSKeys == {RawKey("K1"), RawKey("K2")}

KSIdle == [db |-> FALSE, calls |-> <<>>, queue |-> <<>>, log |-> <<>>]

\* storeMasterKey / getMasterKey / deleteMasterKey / listDevices up to the
\* first await (lazy: the call was made before a database was open):
\* without a database the call awaits initialize(), else it creates its
\* transaction and issues its request.
KSCall(op, d, k) ==
  /\ Len(ks.calls) < MaxKSCalls
  /\ LET c == Len(ks.calls) + 1
     IN ks' = [ks EXCEPT
                 !.calls = Append(@, [op |-> op, d |-> d, k |-> k, lazy |-> ~ks.db,
                                      pc |-> IF ks.db THEN "request" ELSE "open"]),
                 !.queue = IF ks.db THEN Append(@, c) ELSE @]
  /\ UNCHANGED <<pvars, keys, dp>>

\* Faulty variant: every open creates the object store anew.
KSOpenedResets(c) ==
  /\ ks.calls[c].pc = "open"
  /\ ks' = [ks EXCEPT !.db = TRUE,
                      !.calls[c].pc = "request",
                      !.queue = Append(@, c)]
  /\ keys' = {}
  /\ UNCHANGED <<pvars, dp>>

\* initialize() of call c resolves: this.db is set, the transaction is
\* created and the request issued.  The object store is created by the
\* first open only (onupgradeneeded).
KSOpened(c) ==
  /\ ks.calls[c].pc = "open"
  /\ ks' = [ks EXCEPT !.db = TRUE,
                      !.calls[c].pc = "request",
                      !.queue = Append(@, c)]
  /\ UNCHANGED <<pvars, keys, dp>>

KSSettled(call, outcome, result) ==
  [op |-> call.op, d |-> call.d, k |-> call.k, lazy |-> call.lazy,
   outcome |-> outcome, result |-> result]

\* The request of the oldest transaction settles and the promise of its
\* call with it.  A put may fail (request.onerror); a get or a delete of a
\* record that is not there succeeds.
KSRequest ==
  /\ ks.queue # <<>>
  /\ LET c == Head(ks.queue)
         call == ks.calls[c]
         settle(outcome, result) ==
           ks' = [ks EXCEPT !.queue = Tail(@),
                            !.calls[c].pc = "done",
                            !.log = Append(@, KSSettled(call, outcome, result))]
     IN IF call.op = "store" THEN
          \/ /\ keys' = PutRecord(keys, call.k, call.d)
             /\ settle("resolved", NoKey)
          \/ /\ keys' = keys
             /\ settle("rejected", NoKey)
        ELSE IF call.op = "get" THEN
          /\ keys' = keys
          /\ settle("resolved", GetRecord(keys, call.d))
        ELSE IF call.op = "list" THEN
          /\ keys' = keys
          /\ settle("resolved", ListDevices(keys))
        ELSE
          /\ keys' = DeleteRecord(keys, call.d)
          /\ settle("resolved", NoKey)
  /\ UNCHANGED <<pvars, dp>>

----------------------------------------------------------------------------
\* DevicePairing: dp.att[a] is the a-th call of startPairing with the
\* WebSocket it opens and the runs of its onmessage handler.

MaxAttempts == 2
MaxMessages == 2

DPIdle == [status |-> "idle", error |-> NoVal, deviceId |-> NoVal,
           completed |-> <<>>, att |-> <<>>]

\* Device public keys as the remote sends them (hex): a P-256 point, bytes
\* that are no point, or none.
ValidPublicKeys == {"04a1"}
PublicKeys == ValidPublicKeys \cup {"zz", NoVal}

\* What the remote may send: the two replies of the protocol, with fields
\* present or absent, and text that is not JSON.
Messages ==
  [json : {TRUE}, status : {"verified"}, deviceId : {"D1"},
   devicePublicKey : PublicKeys, message : {NoVal}]
  \cup [json : {TRUE}, status : {"verified"}, deviceId : {NoVal},
        devicePublicKey : {"04a1"}, message : {NoVal}]
  \cup [json : {TRUE}, status : {"error"}, deviceId : {NoVal},
        devicePublicKey : {NoVal}, message : {"Device rejected", NoVal}]
  \cup [json : {FALSE}, status : {NoVal}, deviceId : {NoVal},
        devicePublicKey : {NoVal}, message : {NoVal}]

NoMessage == [json |-> FALSE, status |-> "none", deviceId |-> NoVal,
              devicePublicKey |-> NoVal, message |-> NoVal]

\* The number of messages dispatched to the sockets of attempts 1..n.
RECURSIVE Received(_, _)
Received(d, n) == IF n = 0 THEN 0 ELSE d.att[n].received + Received(d, n - 1)

AttemptTags == <<"a1", "a2", "a3", "a4">>

\* deriveMasterKey: the exported AES key of the ECDH agreement between the
\* attempt's private key and the device's public key.
DeriveMasterKey(a, pub) == [kind |-> "ecdh", id |-> AttemptTags[a] \o "/" \o pub]

\* generateKey: the private key of the a-th attempt, and hashHex, the
\* SHA-256 of its exported public key.
PrivateKey(a) == [kind |-> "ecdh-private", id |-> AttemptTags[a]]
Fingerprint(a) == [kind |-> "sha256-of-public", id |-> AttemptTags[a]]

NewAttempt(closure) ==
  [closure |-> closure,   \* `status` of the render whose startPairing runs
   pc |-> "prepare", ws |-> "none", sent |-> <<>>, handlers |-> <<>>,
   \* history: the messages dispatched (their number and the last one);
   \* whether an error event was; how the socket closed; the exceptions
   \* that left onmessage uncaught
   received |-> 0, last |-> NoMessage, errored |-> FALSE, closed |-> "no", uncaught |-> <<>>]

\* ws.close(): starts the closing handshake unless the socket is closed.
WsCloseCall(ws) == IF ws \in {"connecting", "open"} THEN "closing" ELSE ws

\* The Start Pairing button (status 'idle') or Retry (status 'error'):
\* startPairing() up to its first await.
StartPairing ==
  /\ dp.status \in {"idle", "error"}
  /\ Len(dp.att) < MaxAttempts
  /\ dp' = [dp EXCEPT !.status = "pairing", !.error = NoVal,
                      !.att = Append(@, NewAttempt(dp.status))]
  /\ UNCHANGED <<pvars, keys, ks>>

\* The key pair, the fingerprint and the QR code are there and the socket
\* is created with its four handlers; or one of the awaited calls failed
\* and the catch block of startPairing ran.
PrepareDone(a) ==
  /\ dp.att[a].pc = "prepare"
  /\ \/ dp' = [dp EXCEPT !.att[a].pc = "socket", !.att[a].ws = "connecting"]
     \/ dp' = [dp EXCEPT !.att[a].pc = "failed",
                         !.error = "QR code generation failed",
                         !.status = "error"]
  /\ UNCHANGED <<pvars, keys, ks>>

\* Faulty variant: the private key is sent.
WsOpenSendsKey(a) ==
  /\ dp.att[a].ws = "connecting"
  /\ dp' = [dp EXCEPT !.att[a].ws = "open",
                      !.att[a].sent =
                         Append(@, [publicKey |-> [kind |-> "ecdh-private",
                                                   id |-> AttemptTags[a]]])]
  /\ UNCHANGED <<pvars, keys, ks>>

\* ws.onopen: ws.send(JSON.stringify({ publicKey: hashHex })).
WsOpen(a) ==
  /\ dp.att[a].ws = "connecting"
  /\ dp' = [dp EXCEPT !.att[a].ws = "open",
                      !.att[a].sent = Append(@, [publicKey |-> Fingerprint(a)])]
  /\ UNCHANGED <<pvars, keys, ks>>

\* Faulty variant: the reason of the remote is surfaced as it is.
ErrorReasonRaw(m) == m.message

\* response.message || 'Pairing failed'
ErrorReason(m) == IF m.message # NoVal THEN m.message ELSE "Pairing failed"

\* ws.onmessage up to its first await.  What it throws is caught by nobody:
\* the handler is an async function called by the event dispatch.
OnMessage(d, a, m) ==
  LET r == [d EXCEPT !.att[a].received = @ + 1, !.att[a].last = m]
  IN IF ~m.json THEN
       [r EXCEPT !.att[a].uncaught = Append(@, "Unexpected token in JSON")]
     ELSE IF m.status = "verified" /\ m.deviceId # NoVal THEN
       IF m.devicePublicKey = NoVal THEN
         [r EXCEPT !.att[a].uncaught =
                      Append(@, "Cannot read properties of undefined (reading 'match')")]
       ELSE
         [r EXCEPT !.att[a].handlers =
                      Append(@, [resp |-> m, pc |-> "derive", key |-> NoKey])]
     ELSE IF m.status = "error" THEN
       [r EXCEPT !.error = ErrorReason(m), !.status = "error",
                 !.att[a].ws = WsCloseCall(@)]
     ELSE r

\* A message of the remote is dispatched to an open socket.
WsMessage(a) ==
  /\ dp.att[a].ws = "open"
  /\ Received(dp, Len(dp.att)) < MaxMessages
  /\ \E m \in Messages : dp' = OnMessage(dp, a, m)
  /\ UNCHANGED <<pvars, keys, ks>>

\* importKey / deriveKey / exportKey of deriveMasterKey settle: the key is
\* there and storeMasterKey is called, or importKey rejected the bytes.
DeriveDone(a, h) ==
  /\ dp.att[a].handlers[h].pc = "derive"
  /\ LET pub == dp.att[a].handlers[h].resp.devicePublicKey
     IN IF pub \in ValidPublicKeys
          THEN dp' = [dp EXCEPT !.att[a].handlers[h].pc = "store",
                                !.att[a].handlers[h].key = DeriveMasterKey(a, pub)]
          ELSE dp' = [dp EXCEPT !.att[a].handlers[h].pc = "threw",
                                !.att[a].uncaught = Append(@, "DataError")]
  /\ UNCHANGED <<pvars, keys, ks>>

\* storeMasterKey settles and the handler runs to its end: the record is
\* written, then deviceId and status are set, onPairingComplete is called
\* and the socket closed; or the write failed and the handler threw.
StoreDone(a, h) ==
  /\ dp.att[a].handlers[h].pc = "store"
  /\ LET hd == dp.att[a].handlers[h]
     IN \/ /\ keys' = PutRecord(keys, hd.key, hd.resp.deviceId)
           /\ dp' = [dp EXCEPT !.deviceId = hd.resp.deviceId,
                               !.status = "paired",
                               !.completed = Append(@, hd.resp.deviceId),
                               !.att[a].ws = WsCloseCall(@),
                               !.att[a].handlers[h].pc = "done"]
        \/ /\ keys' = keys
           /\ dp' = [dp EXCEPT !.att[a].handlers[h].pc = "threw",
                               !.att[a].uncaught = Append(@, "QuotaExceededError")]
  /\ UNCHANGED <<pvars, ks>>

\* ws.onerror: the connection failed.
WsError(a) ==
  /\ dp.att[a].ws \in {"connecting", "open"}
  /\ dp' = [dp EXCEPT !.error = "Connection to device failed",
                      !.status = "error",
                      !.att[a].errored = TRUE,
                      !.att[a].ws = "closing"]
  /\ UNCHANGED <<pvars, keys, ks>>

\* ws.onclose, as it reads the `status` of its closure.
OnClose(d, a, wasClean) ==
  IF d.att[a].closure = "pairing" /\ ~wasClean
    THEN [d EXCEPT !.error = "Connection closed unexpectedly", !.status = "error"]
    ELSE d

\* The close event: the end of a closing handshake, or of a connection that
\* the remote closed or that was lost.
WsClose(a) ==
  /\ dp.att[a].ws \in {"open", "closing"}
  /\ \E wasClean \in BOOLEAN :
       /\ dp.att[a].errored => ~wasClean
       /\ dp' = OnClose([dp EXCEPT !.att[a].ws = "closed",
                                   !.att[a].closed =
                                      IF wasClean THEN "clean" ELSE "unclean"],
                        a, wasClean)
  /\ UNCHANGED <<pvars, keys, ks>>

----------------------------------------------------------------------------
\* VideoPlayer (seed strategy only): vp.workers[i] and vp.loads[i] belong to
\* the i-th call of initializePlayer.

VPProps == [streamUrl : {"S1", "S2"}, seedKey : {ShortSeed, LongSeed}]

VPIdle == [mounted |-> FALSE, started |-> FALSE, p |-> [streamUrl |-> "S1", seedKey |-> LongSeed],
           workerRef |-> 0, workers |-> <<>>, loads |-> <<>>,
           isLoading |-> TRUE, error |-> NoVal, src |-> NoBuf]

\* initializePlayer() up to the await of fetch: a stream worker with
\* handleWorkerMessage as its handler, INIT posted, the fetch issued.
InitializePlayer(v, p) ==
  [v EXCEPT !.p = p, !.mounted = TRUE, !.started = TRUE,
            !.isLoading = TRUE, !.error = NoVal,
            !.workers = Append(@, [PostMessage(NewStreamWorker,
                                               [type |-> "INIT", seedKey |-> p.seedKey])
                                     EXCEPT !.handler = "vp"]),
            !.workerRef = Len(v.workers) + 1,
            !.loads = Append(@, [pc |-> "awaitFetch", p |-> p])]

\* cleanup(): terminate workerRef.current and clear the ref.
VPCleanup(v) ==
  [v EXCEPT !.workers = [j \in DOMAIN v.workers |->
                           IF j = v.workerRef THEN Terminate(v.workers[j])
                           ELSE v.workers[j]],
            !.workerRef = 0]

VPMount ==
  /\ ~vp.started
  /\ \E p \in VPProps : vp' = InitializePlayer(vp, p)
  /\ UNCHANGED uvars

VPChangeInputs ==
  /\ vp.mounted
  /\ Len(vp.loads) < MaxLoads
  /\ \E p \in VPProps :
       /\ p # vp.p
       /\ vp' = InitializePlayer(VPCleanup(vp), p)
  /\ UNCHANGED uvars

VPUnmount ==
  /\ vp.mounted
  /\ vp' = [VPCleanup(vp) EXCEPT !.mounted = FALSE]
  /\ UNCHANGED uvars

\* fetchAndDecryptStream after the fetch settled: the buffer goes to
\* workerRef.current, whatever worker that is by then.
VPPostProcess(v, buf) ==
  IF v.workerRef = 0 THEN v
  ELSE [v EXCEPT !.workers[v.workerRef] =
                    NotePosted(PostMessage(@, [type |-> "PROCESS", data |-> buf]))]

VPFetchDone(i) ==
  /\ vp.loads[i].pc = "awaitFetch"
  /\ \/ \E reason \in {"Failed to initialize player: Failed to fetch stream: Failed to fetch",
                       "Failed to initialize player: Failed to fetch stream: HTTP 500: Internal Server Error"} :
          vp' = [vp EXCEPT !.loads[i].pc = "done",
                           !.error = IF vp.mounted THEN reason ELSE @,
                           !.isLoading = IF vp.mounted THEN FALSE ELSE @]
     \/ \E k \in BufferKeys :
          vp' = [VPPostProcess(vp, [encKey |-> k]) EXCEPT
                   !.loads[i].pc = "done",
                   !.isLoading = IF vp.mounted THEN FALSE ELSE @]
  /\ UNCHANGED uvars

VPWorkerStep(i) ==
  /\ vp.workers[i].alive
  /\ vp.workers[i].inbox # <<>>
  /\ vp' = [vp EXCEPT !.workers[i] = WorkerReceive(@)]
  /\ UNCHANGED uvars

VPWorkerFinish(i) ==
  /\ vp.workers[i].alive
  /\ \E n \in DOMAIN vp.workers[i].pending :
       vp' = [vp EXCEPT !.workers[i] = WorkerComplete(@, n)]
  /\ UNCHANGED uvars

\* handleWorkerMessage
HandleWorkerMessage(v, i, m) ==
  IF m.type = "INIT_SUCCESS" THEN [v EXCEPT !.workers[i].acked = TRUE]
  ELSE IF m.type = "PROCESS_SUCCESS" THEN
    [v EXCEPT !.src = IF v.mounted THEN m.data ELSE @]
  ELSE IF m.type = "ERROR" THEN
    [v EXCEPT !.error = IF v.mounted THEN m.error ELSE @]
  ELSE v

VPDeliver(i) ==
  /\ vp.workers[i].alive
  /\ vp.workers[i].outbox # <<>>
  /\ vp' = HandleWorkerMessage([vp EXCEPT !.workers[i].outbox = Tail(@)], i,
                               Head(vp.workers[i].outbox))
  /\ UNCHANGED uvars

----------------------------------------------------------------------------
\* ApiService: svc.api.sent are the requests of login and register as they
\* were sent, svc.api.calls those that await their response, svc.api.storage
\* the two entries of localStorage that the service writes.

MaxApiCalls == 3

ApiIdle == [sent |-> <<>>, calls |-> <<>>,
            storage |-> [yo3_token |-> NoVal, yo3_seed_key |-> NoVal]]

\* What the caller passes as seedKey: nothing, or a seed.
CallerSeeds == {NoVal, LongSeed}

\* body: JSON.stringify(credentials)
RequestBody(credentials) == credentials

\* login(credentials) / register(credentials) up to the await of fetch:
\* the request is sent.
ApiCall(method, seed) ==
  /\ Len(svc.api.sent) < MaxApiCalls
  /\ LET credentials == [username |-> "admin", password |-> "pw", seedKey |-> seed]
     IN svc' = [svc EXCEPT
                  !.api.sent = Append(@, [url |-> "/api/auth/" \o method,
                                          body |-> RequestBody(credentials)]),
                  !.api.calls = Append(@, [credentials |-> credentials,
                                           pc |-> "awaitResponse"])]
  /\ UNCHANGED <<props, mounted, session, status, error, progress, workerRef,
                 blobUrlRef, videoSrc, tasks, workers, blobs, keys, vp, dp, ks>>

\* The response arrives: not ok, and the call throws; or ok, and the token
\* and, when one was passed, the seed key are written to localStorage.
ApiResponse(c) ==
  /\ svc.api.calls[c].pc = "awaitResponse"
  /\ \/ svc' = [svc EXCEPT !.api.calls[c].pc = "threw"]
     \/ svc' = [svc EXCEPT
                  !.api.calls[c].pc = "done",
                  !.api.storage.yo3_token = "accessToken",
                  !.api.storage.yo3_seed_key =
                     IF svc.api.calls[c].credentials.seedKey # NoVal
                     THEN svc.api.calls[c].credentials.seedKey ELSE @]
  /\ UNCHANGED <<props, mounted, session, status, error, progress, workerRef,
                 blobUrlRef, videoSrc, tasks, workers, blobs, keys, vp, dp, ks>>

\* logout(): both entries are removed.
ApiLogout ==
  /\ svc.api.storage # ApiIdle.storage
  /\ svc' = [svc EXCEPT !.api.storage = ApiIdle.storage]
  /\ UNCHANGED <<props, mounted, session, status, error, progress, workerRef,
                 blobUrlRef, videoSrc, tasks, workers, blobs, keys, vp, dp, ks>>

----------------------------------------------------------------------------
\* DetectionEventService with a stream URL configured (WebSocket mode):
\* svc.des.socks are the WebSockets it created, svc.des.timers the
\* reconnect timers it set, svc.des.notified what the error handler was
\* called with.

MaxReconnectAttempts == 5
ReconnectDelay == 1000

MaxSockets == 7
MaxConnects == 2
MaxDisconnects == 1

DESIdle ==
  [ws |-> 0, isConnecting |-> FALSE, reconnectAttempts |-> 0, reconnectTimer |-> 0,
   handler |-> FALSE, socks |-> <<>>, timers |-> <<>>, notified |-> <<>>,
   \* history: the calls of connect() and disconnect(); the connections
   \* made by reconnect timers since the last open or call of connect();
   \* whether disconnect() was the last of the two calls
   connects |-> 0, disconnects |-> 0, streak |-> 0, down |-> FALSE]

\* handleError: every registered handler is called.
HandleError(d, msg) ==
  IF d.handler THEN [d EXCEPT !.notified = Append(@, msg)] ELSE d

\* connect() and connectWebSocket(): nothing when connecting or open, else
\* a new socket is created with its handlers.
Connect(d, by) ==
  IF d.isConnecting \/ (d.ws # 0 /\ d.socks[d.ws].state = "open")
  THEN d
  ELSE [d EXCEPT !.isConnecting = TRUE,
                 !.socks = Append(@, [state |-> "connecting", by |-> by]),
                 !.ws = Len(d.socks) + 1,
                 !.streak = IF by = "timer" THEN @ + 1 ELSE 0]

\* reconnectDelay * Math.pow(2, reconnectAttempts - 1)
BackoffDelay(n) == ReconnectDelay * 2^(n - 1)

\* attemptReconnect
AttemptReconnect(d) ==
  IF d.reconnectAttempts >= MaxReconnectAttempts
  THEN HandleError(d, "Failed to connect after multiple attempts")
  ELSE [d EXCEPT !.reconnectAttempts = @ + 1,
                 !.timers = Append(@, [delay |-> BackoffDelay(d.reconnectAttempts + 1),
                                       state |-> "pending"]),
                 !.reconnectTimer = Len(d.timers) + 1]

DESUnchanged ==
  UNCHANGED <<props, mounted, session, status, error, progress, workerRef,
              blobUrlRef, videoSrc, tasks, workers, blobs, keys, vp, dp, ks>>

\* A caller calls connect().
DESConnect ==
  /\ svc.des.connects < MaxConnects
  /\ Len(svc.des.socks) < MaxSockets
  /\ svc' = [svc EXCEPT !.des = [Connect(svc.des, "connect") EXCEPT !.connects = @ + 1,
                                                                     !.down = FALSE]]
  /\ DESUnchanged

\* A caller registers an error handler (onError).
DESOnError ==
  /\ ~svc.des.handler
  /\ svc' = [svc EXCEPT !.des.handler = TRUE]
  /\ DESUnchanged

\* A reconnect timer fires: connect(options).
DESTimer(t) ==
  /\ svc.des.timers[t].state = "pending"
  /\ Len(svc.des.socks) < MaxSockets
  /\ svc' = [svc EXCEPT !.des = Connect([svc.des EXCEPT !.timers[t].state = "fired"],
                                        "timer")]
  /\ DESUnchanged

\* ws.onopen
DESOpen(s) ==
  /\ svc.des.socks[s].state = "connecting"
  /\ svc' = [svc EXCEPT !.des.socks[s].state = "open",
                        !.des.isConnecting = FALSE,
                        !.des.reconnectAttempts = 0,
                        !.des.streak = 0]
  /\ DESUnchanged

\* ws.onerror: the connection failed; its close event follows.
DESError(s) ==
  /\ svc.des.socks[s].state \in {"connecting", "open"}
  /\ svc' = [svc EXCEPT !.des = HandleError([svc.des EXCEPT !.socks[s].state = "failed"],
                                            "WebSocket connection error")]
  /\ DESUnchanged

\* ws.onclose, of a socket that was closed by either side or failed.
DESClose(s) ==
  /\ svc.des.socks[s].state \in {"open", "failed", "closing"}
  /\ svc' = [svc EXCEPT !.des = AttemptReconnect([svc.des EXCEPT
                                                    !.socks[s].state = "closed",
                                                    !.isConnecting = FALSE,
                                                    !.ws = 0])]
  /\ DESUnchanged

\* disconnect()
DESDisconnect ==
  /\ svc.des.disconnects < MaxDisconnects
  /\ LET d == svc.des
         d1 == IF d.reconnectTimer # 0
               THEN [d EXCEPT !.timers[d.reconnectTimer].state =
                                 IF @ = "pending" THEN "cleared" ELSE @,
                              !.reconnectTimer = 0]
               ELSE d
         d2 == IF d.ws # 0
               THEN [d1 EXCEPT !.socks[d.ws].state = WsCloseCall(@), !.ws = 0]
               ELSE d1
     IN svc' = [svc EXCEPT !.des = [d2 EXCEPT !.handler = FALSE,
                                              !.isConnecting = FALSE,
                                              !.reconnectAttempts = 0,
                                              !.disconnects = @ + 1,
                                              !.down = TRUE]]
  /\ DESUnchanged

----------------------------------------------------------------------------
\* RequestLoggerService: svc.rl.logs is the buffer, svc.rl.requestId the
\* counter the ids are taken from.

MaxLogs == 100

MaxLogCalls == 103
MaxClears == 2

RLUrls == {"http://localhost:8081/api/auth/login"}

RLIdle ==
  [logs |-> <<>>, requestId |-> 0,
   \* history: the entries logged since the last clearLogs(), oldest
   \* first, and the calls of clearLogs()
   logged |-> <<>>, clears |-> 0]

\* The entry logRequest builds: the id is the incremented counter.
NewRequest(r, url) == [id |-> r.requestId + 1, url |-> url]

LogRequestKeepsAll(r, url) ==
  [r EXCEPT !.requestId = @ + 1,
            !.logs = <<NewRequest(r, url)>> \o @,
            !.logged = Append(@, NewRequest(r, url))]

\* logRequest: unshift, then pop when longer than maxLogs.
LogRequest(r, url) ==
  LET e == NewRequest(r, url)
      l == <<e>> \o r.logs
  IN [r EXCEPT !.requestId = @ + 1,
               !.logs = IF Len(l) > MaxLogs THEN SubSeq(l, 1, Len(l) - 1) ELSE l,
               !.logged = Append(@, e)]

\* A caller (or the fetch interception) logs a request.
RLLogRequest ==
  /\ svc.rl.requestId < MaxLogCalls
  /\ \E url \in RLUrls :
       svc' = [svc EXCEPT !.rl = LogRequest(svc.rl, url)]
  /\ DESUnchanged

\* clearLogs()
RLClearLogs ==
  /\ svc.rl.clears < MaxClears
  /\ svc' = [svc EXCEPT !.rl.logs = <<>>, !.rl.logged = <<>>, !.rl.clears = @ + 1]
  /\ DESUnchanged

----------------------------------------------------------------------------
\* One telemetry WebSocketClient: svc.tc.socks are the WebSockets it
\* created, svc.tc.timers the reconnect timers it set.

InitialReconnectDelay == 1000
MaxReconnectDelay == 30000

MaxTCSockets == 4
MaxSubscribes == 3

TCHandlers == {"h1", "h2"}

TCIdle ==
  [ws |-> 0, reconnectTimer |-> 0, reconnectDelay |-> InitialReconnectDelay,
   handlers |-> {}, isConnecting |-> FALSE, socks |-> <<>>, timers |-> <<>>,
   \* history: the handlers an unsubscribe function was returned for, the
   \* calls of subscribe, and whether the last handler has unsubscribed
   \* and none has subscribed since
   issued |-> {}, subscribes |-> 0, idle |-> FALSE]

\* connect(): nothing when open or connecting, else a new socket.
TCConnect(c) ==
  IF (c.ws # 0 /\ c.socks[c.ws].state = "open") \/ c.isConnecting
  THEN c
  ELSE [c EXCEPT !.isConnecting = TRUE,
                 !.socks = Append(@, [state |-> "connecting"]),
                 !.ws = Len(c.socks) + 1]

\* scheduleReconnect(): nothing when a timer is set.
ScheduleReconnect(c) ==
  IF c.reconnectTimer # 0
  THEN c
  ELSE [c EXCEPT !.timers = Append(@, [delay |-> c.reconnectDelay, state |-> "pending"]),
                 !.reconnectTimer = Len(c.timers) + 1]

\* disconnect()
TCDisconnect(c) ==
  LET c1 == IF c.reconnectTimer # 0
            THEN [c EXCEPT !.timers[c.reconnectTimer].state = "cleared",
                           !.reconnectTimer = 0]
            ELSE c
      c2 == IF c.ws # 0
            THEN [c1 EXCEPT !.socks[c.ws].state = WsCloseCall(@), !.ws = 0]
            ELSE c1
  IN [c2 EXCEPT !.isConnecting = FALSE]

\* subscribe(handler): the handler is added; connect() when it is the only one.
TCSubscribe(h) ==
  /\ svc.tc.subscribes < MaxSubscribes
  /\ Len(svc.tc.socks) < MaxTCSockets
  /\ LET c == [svc.tc EXCEPT !.handlers = @ \cup {h}, !.issued = @ \cup {h},
                              !.subscribes = @ + 1, !.idle = FALSE]
     IN svc' = [svc EXCEPT !.tc = IF Cardinality(c.handlers) = 1 THEN TCConnect(c) ELSE c]
  /\ DESUnchanged

\* The function subscribe returned for h is called: the handler is
\* removed; disconnect() when none remains.
TCUnsubscribe(h) ==
  /\ h \in svc.tc.issued
  /\ LET c == [svc.tc EXCEPT !.handlers = @ \ {h}]
     IN svc' = [svc EXCEPT !.tc = IF c.handlers = {}
                                    THEN [TCDisconnect(c) EXCEPT !.idle = TRUE]
                                    ELSE c]
  /\ svc' # svc
  /\ DESUnchanged

\* ws.onopen
TCOpen(s) ==
  /\ svc.tc.socks[s].state = "connecting"
  /\ svc' = [svc EXCEPT !.tc.socks[s].state = "open",
                        !.tc.isConnecting = FALSE,
                        !.tc.reconnectDelay = InitialReconnectDelay]
  /\ DESUnchanged

\* ws.onerror: the connection failed; its close event follows.
TCError(s) ==
  /\ svc.tc.socks[s].state \in {"connecting", "open"}
  /\ svc' = [svc EXCEPT !.tc.socks[s].state = "failed", !.tc.isConnecting = FALSE]
  /\ DESUnchanged

\* ws.onclose, of a socket that was closed by either side or failed.
TCClose(s) ==
  /\ svc.tc.socks[s].state \in {"open", "failed", "closing"}
  /\ svc' = [svc EXCEPT !.tc = ScheduleReconnect([svc.tc EXCEPT
                                                     !.socks[s].state = "closed",
                                                     !.isConnecting = FALSE])]
  /\ DESUnchanged

Min(a, b) == IF a < b THEN a ELSE b

\* The reconnect timer fires: the handle is dropped, connect(), and the
\* delay is doubled up to the maximum.
TCTimer(t) ==
  /\ svc.tc.timers[t].state = "pending"
  /\ Len(svc.tc.socks) < MaxTCSockets
  /\ svc' = [svc EXCEPT !.tc =
               [TCConnect([svc.tc EXCEPT !.timers[t].state = "fired",
                                         !.reconnectTimer = 0])
                  EXCEPT !.reconnectDelay = Min(svc.tc.reconnectDelay * 2,
                                                MaxReconnectDelay)]]
  /\ DESUnchanged

SvcIdle == [api |-> ApiIdle, des |-> DESIdle, rl |-> RLIdle, tc |-> TCIdle]

----------------------------------------------------------------------------
InitWith(ps) ==
  /\ props \in ps
  /\ mounted = FALSE
  /\ session = 0
  /\ status = "loading"
  /\ error = NoVal
  /\ progress = 0
  /\ workerRef = 0
  /\ blobUrlRef = 0
  /\ videoSrc = 0
  /\ tasks = <<>>
  /\ workers = <<>>
  /\ blobs = <<>>
  /\ keys = {}
  /\ vp = VPIdle
  /\ dp = DPIdle
  /\ ks = KSIdle
  /\ svc = SvcIdle

Init == InitWith(PropsSet)

Async ==
  \/ \E i \in DOMAIN tasks : KeyLookup(i)
  \/ \E i \in DOMAIN tasks : FetchDone(i)
  \/ \E i \in DOMAIN tasks : LiveFetchDone(i)
  \/ \E i \in DOMAIN workers : WorkerStep(i)
  \/ \E i \in DOMAIN workers : WorkerFinish(i)
  \/ \E i \in DOMAIN workers : Deliver(i)

Next ==
  \/ Mount
  \/ ChangeInputs
  \/ Retry
  \/ Unmount
  \/ Async
  \/ \E k \in MasterKeys, d \in Devices : StoreMasterKey(k, d)
  \/ \E d \in Devices : DeleteMasterKey(d)

Spec == Init /\ [][Next]_vars

NextDeep ==
  \/ Mount
  \/ DeepChangeInputs
  \/ DeepRetry
  \/ Unmount
  \/ Async
  \/ \E k \in MasterKeys, d \in Devices : StoreMasterKey(k, d)
  \/ \E d \in Devices : DeleteMasterKey(d)

SpecDeep == Init /\ [][NextDeep]_vars

NextVP ==
  \/ VPMount
  \/ VPChangeInputs
  \/ VPUnmount
  \/ \E i \in DOMAIN vp.loads : VPFetchDone(i)
  \/ \E i \in DOMAIN vp.workers : VPWorkerStep(i)
  \/ \E i \in DOMAIN vp.workers : VPWorkerFinish(i)
  \/ \E i \in DOMAIN vp.workers : VPDeliver(i)

InitVP == InitWith({[mode |-> "archive", keyStrategy |-> "seed", videoId |-> "C1",
                      streamUrl |-> NoVal, deviceId |-> NoVal, seedKey |-> LongSeed]})

SpecVP == InitVP /\ [][NextVP]_vars

\* The event loop runs every callback that is due, and every awaited
\* operation (key lookup, fetch, WebCrypto call, message) settles.
FairSpec == Spec /\ WF_vars(Async)

\* The archive path alone: every session of the instance is in archive mode.
NextArchive ==
  \/ Mount
  \/ ArchiveChangeInputs
  \/ Retry
  \/ Unmount
  \/ \E i \in DOMAIN tasks : KeyLookup(i)
  \/ \E i \in DOMAIN tasks : FetchDone(i)
  \/ \E i \in DOMAIN workers : WorkerStep(i)
  \/ \E i \in DOMAIN workers : WorkerFinish(i)
  \/ \E i \in DOMAIN workers : Deliver(i)
  \/ \E k \in MasterKeys, d \in Devices : StoreMasterKey(k, d)
  \/ \E d \in Devices : DeleteMasterKey(d)

SpecArchive == InitWith(ArchiveProps) /\ [][NextArchive]_vars

\* Live mode, entered at the mount or from a session in archive mode.
NextLive ==
  \/ Mount
  \/ LiveChangeInputs
  \/ Retry
  \/ Unmount
  \/ Async
  \/ \E k \in MasterKeys, d \in Devices : StoreMasterKey(k, d)
  \/ \E d \in Devices : DeleteMasterKey(d)

SpecLive == InitWith(LiveProps) /\ [][NextLive]_vars

FairSpecArchive == SpecArchive /\ WF_vars(Async)

\* One fixed idle player next to the component under study.
InitIdle == InitWith({[mode |-> "archive", keyStrategy |-> "master", videoId |-> "C1",
                        streamUrl |-> NoVal, deviceId |-> "D1", seedKey |-> NoVal]})

NextPairing ==
  \/ StartPairing
  \/ \E a \in DOMAIN dp.att : PrepareDone(a)
  \/ \E a \in DOMAIN dp.att : WsOpen(a)
  \/ \E a \in DOMAIN dp.att : WsMessage(a)
  \/ \E a \in DOMAIN dp.att : \E h \in DOMAIN dp.att[a].handlers : DeriveDone(a, h)
  \/ \E a \in DOMAIN dp.att : \E h \in DOMAIN dp.att[a].handlers : StoreDone(a, h)
  \/ \E a \in DOMAIN dp.att : WsError(a)
  \/ \E a \in DOMAIN dp.att : WsClose(a)

SpecPairing == InitIdle /\ [][NextPairing]_vars

NextKeyStore ==
  \/ \E d \in KSDevices, k \in KSKeys : KSCall("store", d, k)
  \/ \E d \in KSDevices : KSCall("get", d, NoKey)
  \/ \E d \in KSDevices : KSCall("delete", d, NoKey)
  \/ KSCall("list", NoVal, NoKey)
  \/ \E c \in DOMAIN ks.calls : KSOpened(c)
  \/ KSRequest

SpecKeyStore == InitIdle /\ [][NextKeyStore]_vars

\* The props that pass the validation.
ValidProps == {p \in PropsSet : ValidationErrors(p) = <<>>}

\* One pairing and one player next to each other.
NextNetwork ==
  \/ dp.att = <<>> /\ StartPairing
  \/ \E a \in DOMAIN dp.att : PrepareDone(a)
  \/ \E a \in DOMAIN dp.att : WsOpen(a)
  \/ \E a \in DOMAIN dp.att : WsMessage(a)
  \/ \E a \in DOMAIN dp.att : \E h \in DOMAIN dp.att[a].handlers : DeriveDone(a, h)
  \/ \E a \in DOMAIN dp.att : \E h \in DOMAIN dp.att[a].handlers : StoreDone(a, h)
  \/ \E a \in DOMAIN dp.att : WsError(a)
  \/ \E a \in DOMAIN dp.att : WsClose(a)
  \/ Mount
  \/ Async

SpecNetwork == InitWith(ValidProps) /\ [][NextNetwork]_vars

NextAuth ==
  \/ \E seed \in CallerSeeds : ApiCall("login", seed)
  \/ \E seed \in CallerSeeds : ApiCall("register", seed)
  \/ \E c \in DOMAIN svc.api.calls : ApiResponse(c)
  \/ ApiLogout

SpecAuth == InitIdle /\ [][NextAuth]_vars

NextTelemetry ==
  \/ \E h \in TCHandlers : TCSubscribe(h)
  \/ \E h \in TCHandlers : TCUnsubscribe(h)
  \/ \E s \in DOMAIN svc.tc.socks : TCOpen(s)
  \/ \E s \in DOMAIN svc.tc.socks : TCError(s)
  \/ \E s \in DOMAIN svc.tc.socks : TCClose(s)
  \/ \E t \in DOMAIN svc.tc.timers : TCTimer(t)

SpecTelemetry == InitIdle /\ [][NextTelemetry]_vars

NextLogger ==
  \/ RLLogRequest
  \/ RLClearLogs

SpecLogger == InitIdle /\ [][NextLogger]_vars

NextDetection ==
  \/ DESConnect
  \/ DESOnError
  \/ \E t \in DOMAIN svc.des.timers : DESTimer(t)
  \/ \E s \in DOMAIN svc.des.socks : DESOpen(s)
  \/ \E s \in DOMAIN svc.des.socks : DESError(s)
  \/ \E s \in DOMAIN svc.des.socks : DESClose(s)
  \/ DESDisconnect

SpecDetection == InitIdle /\ [][NextDetection]_vars

\* One worker of either kind, created and not yet used; its replies stay
\* in its outbox.
InitWorker ==
  /\ props = [mode |-> "archive", keyStrategy |-> "master", videoId |-> "C1",
              streamUrl |-> NoVal, deviceId |-> "D1", seedKey |-> NoVal]
  /\ mounted = FALSE
  /\ session = 0
  /\ status = "loading"
  /\ error = NoVal
  /\ progress = 0
  /\ workerRef = 0
  /\ blobUrlRef = 0
  /\ videoSrc = 0
  /\ tasks = <<>>
  /\ workers \in {<<NewStreamWorker>>, <<NewCryptoWorker>>, <<NewDataWorker>>}
  /\ blobs = <<>>
  /\ keys = {}
  /\ vp = VPIdle
  /\ dp = DPIdle
  /\ ks = KSIdle
  /\ svc = SvcIdle

NextWorker ==
  \/ \E i \in DOMAIN workers : \E m \in WorkerRequests(workers[i].kind) : WorkerPost(i, m)
  \/ \E i \in DOMAIN workers : WorkerStep(i)
  \/ \E i \in DOMAIN workers : WorkerFinish(i)

SpecWorker == InitWorker /\ [][NextWorker]_vars

----------------------------------------------------------------------------
\* Properties of the playback orchestrator

NotPairedReason == "Master key not found. Please pair device first."
FetchFailures == {"Failed to fetch", "Failed to fetch video: Not Found"}
CryptoFailure == "The operation failed"

\* Invocation i is the attempt the mounted player is showing: the latest
\* one, for the current inputs, started when no step of an earlier
\* invocation was still pending.
CurrentAttempt(i) ==
  /\ i \in DOMAIN tasks
  /\ i = Len(tasks)
  /\ mounted
  /\ tasks[i].session = session
  /\ tasks[i].alone

ArchiveMaster(i) ==
  /\ tasks[i].p.mode = "archive"
  /\ tasks[i].p.keyStrategy = "master"
  /\ tasks[i].p.videoId # NoVal
  /\ tasks[i].p.deviceId # NoVal

\* The content source answered attempt i with a buffer encrypted under the
\* key the attempt got from the key store / under another key.
RightBuffer(i) == tasks[i].buf # NoBuf /\ tasks[i].buf.encKey = tasks[i].cryptoKey
WrongBuffer(i) == tasks[i].buf # NoBuf /\ tasks[i].buf.encKey # tasks[i].cryptoKey

\* What the environment may do against the scenario of C1: no key record at
\* the lookup, a failed fetch, a buffer under another key.
C1_Excused(i) ==
  \/ tasks[i].failure \in FetchFailures \cup {NotPairedReason}
  \/ WrongBuffer(i)

C1_NoError ==
  \A i \in DOMAIN tasks :
    (CurrentAttempt(i) /\ ArchiveMaster(i) /\ ~C1_Excused(i)) => status # "error"

\* The latest invocation is an undisturbed (archive, master) attempt that
\* the environment has not failed.
C1_Pending ==
  /\ CurrentAttempt(Len(tasks))
  /\ ArchiveMaster(Len(tasks))
  /\ ~C1_Excused(Len(tasks))

C1_Ready ==
  C1_Pending ~> \/ ~C1_Pending
                \/ /\ status = "ready"
                   /\ videoSrc = Len(tasks)
                   /\ blobs[Len(tasks)] = "live"

C2_Safe ==
  \A i \in DOMAIN tasks :
    (ArchiveMaster(i) /\ WrongBuffer(i)) =>
       /\ blobs[i] = "none"
       /\ videoSrc # i
       /\ CurrentAttempt(i) => status # "ready"
       /\ tasks[i].pc = "done" => tasks[i].failure = CryptoFailure
       /\ (tasks[i].pc = "done" /\ CurrentAttempt(i)) =>
             (status = "error" /\ error = CryptoFailure)

C2_Pending ==
  /\ CurrentAttempt(Len(tasks))
  /\ ArchiveMaster(Len(tasks))
  /\ WrongBuffer(Len(tasks))

C2_Fails == C2_Pending ~> (~C2_Pending \/ status = "error")

\* C2: with a buffer encrypted under a key other than the stored one the
\* session reaches status 'error' (crypto failure), never 'ready', and no
\* media resource is attached.
C2_WrongKeyFails == []C2_Safe /\ C2_Fails

C2_Witness ==
  \E i \in DOMAIN tasks :
    /\ CurrentAttempt(i) /\ ArchiveMaster(i) /\ WrongBuffer(i)
    /\ tasks[i].pc = "done" /\ status = "error" /\ error = CryptoFailure

\* C3: (as claimed) once the load of a session whose inputs violate the
\* validation has nothing pending, the status is 'error' and onError has been
\* invoked.
C3_InvalidInputsSettleInError ==
  (mounted /\ Len(tasks) > 0) =>
    LET t == tasks[Len(tasks)]
    IN (t.session = session /\ t.validation # <<>> /\ t.pc = "done")
         => status = "error"

\* C4: (as claimed) an invocation for inputs that violate the validation
\* creates no worker and issues no fetch.
C4_InvalidInputsStartNothing ==
  \A i \in DOMAIN tasks :
    ValidationErrors(tasks[i].p) # <<>> =>
      (workers[i].kind = "none" /\ ~tasks[i].fetched)

WorkerIdle(w) == w.inbox = <<>> /\ w.pending = <<>> /\ w.outbox = <<>>

ShortSeedArchive(i) ==
  /\ tasks[i].p.mode = "archive"
  /\ tasks[i].p.keyStrategy = "seed"
  /\ tasks[i].p.videoId # NoVal
  /\ tasks[i].p.seedKey # NoVal
  /\ Len(tasks[i].p.seedKey) < MinSeedLen

\* C5: (as claimed) a session (archive, seed) with a non-empty seed shorter
\* than 32 characters never fetches, and once its worker has answered and
\* has nothing left to do the status is 'error' and onError was invoked.
C5_ShortSeedEndsInError ==
  \A i \in DOMAIN tasks :
    (CurrentAttempt(i) /\ ShortSeedArchive(i)) =>
       /\ ~tasks[i].fetched
       /\ WorkerIdle(workers[i]) => (status = "error" /\ tasks[i].reported # NoVal)

C6_LookupMiss(i) ==
  /\ tasks[i].pc = "awaitKey"
  /\ tasks'[i].pc # "awaitKey"
  /\ ~HasRecord(keys, tasks[i].p.deviceId)

C6_NoFetchBeforeKey ==
  \A i \in DOMAIN tasks :
    /\ tasks[i].pc = "awaitKey" => ~tasks[i].fetched
    /\ tasks[i].failure = NotPairedReason =>
         (~tasks[i].fetched /\ tasks[i].pc = "done" /\ tasks[i].buf = NoBuf)

C6_MissStep ==
  \A i \in DOMAIN tasks :
    C6_LookupMiss(i) =>
      /\ tasks'[i].pc = "done"
      /\ ~tasks'[i].fetched
      /\ tasks'[i].failure = NotPairedReason
      /\ tasks'[i].reported = NotPairedReason
      /\ mounted => (status' = "error" /\ error' = NotPairedReason)

\* C6: the key lookup of a session (archive, master) for a device without a
\* record ends the attempt with status 'error' and the not-paired reason,
\* and no fetch is issued before or after it.
C6_UnpairedFailsWithoutFetch == []C6_NoFetchBeforeKey /\ [][C6_MissStep]_vars

C6_Witness ==
  \E i \in DOMAIN tasks :
    /\ CurrentAttempt(i) /\ ArchiveMaster(i)
    /\ tasks[i].failure = NotPairedReason /\ ~tasks[i].fetched
    /\ status = "error" /\ error = NotPairedReason

\* C7: (as claimed) no decrypt request is posted to a seed-strategy worker
\* before the acknowledgment of its INIT has reached the main thread.
C7_InitAckedBeforeDecrypt ==
  /\ \A i \in DOMAIN workers : ~workers[i].early
  /\ \A i \in DOMAIN vp.workers : ~vp.workers[i].early

IsDecryptRequest(m) == m.type \in {"process", "PROCESS"}
IsDecryptReply(m) ==
  \/ IsProcessed(m)
  \/ IsWorkerError(m) /\ m.error # "Seed key must be at least 32 characters"

IsDecryptOp(op) == op.op = "decrypt"

\* Decrypt requests posted to w and not yet answered to the main thread:
\* still queued, being decrypted, or answered with the reply on its way.
Outstanding(w) ==
  Cardinality({n \in DOMAIN w.inbox : IsDecryptRequest(w.inbox[n])})
    + Cardinality({n \in DOMAIN w.pending : IsDecryptOp(w.pending[n])})
    + Cardinality({n \in DOMAIN w.outbox : IsDecryptReply(w.outbox[n])})

AliveWorkers == {i \in DOMAIN workers : workers[i].kind # "none" /\ workers[i].alive}

\* C9: (as claimed) once a second session has started, every worker that is
\* alive belongs to the current session and there is at most one.
C9_OneWorkerAfterReconfiguration ==
  (mounted /\ session >= 2) =>
     /\ Cardinality(AliveWorkers) <= 1
     /\ \A i \in AliveWorkers : tasks[i].session = session

\* C10: (as claimed) every failure of an attempt was passed to onError.
C10_FailuresReachOnError ==
  \A i \in DOMAIN tasks :
    tasks[i].failure # NoVal => tasks[i].reported = tasks[i].failure

SeedCryptoFailure == "Processing failed. Verify seed key is correct."
RetryableFailures == FetchFailures \cup {CryptoFailure, SeedCryptoFailure}

\* Invocation i was started by Retry (same session as the invocation before
\* it) after that invocation failed with a fetch or a decrypt failure.
IsRetry(i) ==
  /\ i > 1
  /\ tasks[i].session = tasks[i - 1].session
  /\ tasks[i - 1].failure \in RetryableFailures

\* The step that re-invokes loadVideo after such a failure.
C11_RetryStep ==
  LET n == Len(tasks)
  IN (/\ n > 0
      /\ Len(tasks') = n + 1
      /\ session' = session
      /\ status = "error"
      /\ tasks[n].failure \in RetryableFailures)
     => /\ status' = "loading"
        /\ error' = NoVal
        /\ tasks'[n + 1].p = tasks[n].p
        /\ tasks'[n + 1].pc \in {"awaitKey", "awaitInit"}
        /\ workers'[n + 1].alive

C11_Pending ==
  /\ CurrentAttempt(Len(tasks))
  /\ IsRetry(Len(tasks))
  /\ ~C1_Excused(Len(tasks))

C11_NoError == C11_Pending => status # "error"

C11_Ready ==
  C11_Pending ~> \/ ~C11_Pending
                 \/ /\ status = "ready"
                    /\ videoSrc = Len(tasks)
                    /\ blobs[Len(tasks)] = "live"

\* C11: Retry after a fetch failure or a decrypt failure starts a new
\* attempt for the same inputs with status 'loading' and the error text
\* cleared; unless the key record is gone, the fetch fails again or the
\* buffer is under another key, that attempt never shows an error and
\* reaches status 'ready'.
C11_RetryReachesReady == [][C11_RetryStep]_vars /\ []C11_NoError /\ C11_Ready

C11_Witness ==
  LET n == Len(tasks)
  IN /\ CurrentAttempt(n) /\ IsRetry(n) /\ RightBuffer(n)
     /\ status = "ready" /\ error = NoVal /\ videoSrc = n

LiveTask(i) == tasks[i].p.mode = "live"

InboxesDoNotGrow ==
  \A j \in DOMAIN workers : Len(workers'[j].inbox) <= Len(workers[j].inbox)

\* A step that starts an invocation in live mode.
C12_Start ==
  LET n == Len(tasks)
  IN (Len(tasks') = n + 1 /\ tasks'[n + 1].p.mode = "live")
     => /\ workers'[n + 1] = NoWorker
        /\ InboxesDoNotGrow
        /\ status' \in {"loading", "error"}

\* A step taken while the latest invocation is one in live mode.
C12_Step ==
  LET n == Len(tasks)
  IN (n > 0 /\ Len(tasks') = n /\ LiveTask(n) /\ tasks[n].session = session)
     => /\ workers'[n] = NoWorker
        /\ InboxesDoNotGrow
        /\ (CurrentAttempt(n) /\ status' # status)
             => (status = "loading" /\ status' \in {"ready", "error"})

C12_NoProcessing ==
  \A i \in DOMAIN tasks :
    LiveTask(i) =>
      /\ workers[i] = NoWorker
      /\ CurrentAttempt(i) => status # "processing"

SessionEnded(i) == ~mounted \/ tasks[i].session < session

\* C13: (as claimed, for the blob URLs) no blob URL created by an invocation
\* of an ended session is left unrevoked.
C13_EndedSessionsHoldNoBlob ==
  \A i \in DOMAIN tasks : SessionEnded(i) => blobs[i] # "live"

----------------------------------------------------------------------------
\* Properties of the pairing

PairingTransitions ==
  {<<"idle", "pairing">>, <<"pairing", "paired">>, <<"pairing", "error">>,
   <<"error", "pairing">>}

\* C14: (as claimed) the pairing status changes only along idle->pairing,
\* pairing->paired, pairing->error and error->pairing.
C14_StatusFollowsStateMachine ==
  [][dp'.status # dp.status => <<dp.status, dp'.status>> \in PairingTransitions]_vars

RecordsOf(store, d) == {r \in store : r.id = RecordId(d)}

\* The step in which a run of the 'verified' branch gets past
\* storeMasterKey.
C15_Step ==
  \A a \in DOMAIN dp.att : \A h \in DOMAIN dp.att[a].handlers :
    (dp.att[a].handlers[h].pc = "store" /\ dp'.att[a].handlers[h].pc = "done") =>
      LET hd == dp.att[a].handlers[h]
          D == hd.resp.deviceId
      IN /\ hd.key = DeriveMasterKey(a, hd.resp.devicePublicKey)
         /\ RecordsOf(keys', D) = {[id |-> RecordId(D), keyData |-> hd.key]}
         /\ dp'.status = "paired"
         /\ dp'.deviceId = D
         /\ dp'.completed = Append(dp.completed, D)
         /\ dp'.att[a].ws \in {"closing", "closed"}

\* Status 'paired' and onPairingComplete come from such a step only.
C15_OnlyAfterWrite ==
  ((dp'.status = "paired" /\ dp.status # "paired") \/ dp'.completed # dp.completed) =>
    \E a \in DOMAIN dp.att : \E h \in DOMAIN dp.att[a].handlers :
      dp.att[a].handlers[h].pc = "store" /\ dp'.att[a].handlers[h].pc = "done"

C15_Paired ==
  /\ \A i \in DOMAIN dp.completed : Cardinality(RecordsOf(keys, dp.completed[i])) = 1
  /\ dp.status = "paired" =>
       /\ dp.deviceId # NoVal
       /\ Cardinality(RecordsOf(keys, dp.deviceId)) = 1
       /\ \E a \in DOMAIN dp.att : \E h \in DOMAIN dp.att[a].handlers :
            /\ dp.att[a].handlers[h].pc = "done"
            /\ dp.att[a].handlers[h].resp.deviceId = dp.deviceId
            /\ dp.att[a].ws \in {"closing", "closed"}

\* C15: the 'verified' branch sets status 'paired' and calls
\* onPairingComplete(D) only in the step that follows the write of the
\* derived key under D; whenever status is 'paired' the key store holds
\* exactly one record for D and the connection of that reply is closed or
\* closing.
C15_KeyStoredBeforePaired == []C15_Paired /\ [][C15_Step /\ C15_OnlyAfterWrite]_vars

C15_Witness ==
  /\ dp.status = "paired" /\ dp.deviceId = "D1" /\ dp.completed = <<"D1">>
  /\ GetRecord(keys, "D1") = DeriveMasterKey(1, "04a1")
  /\ dp.att[1].ws = "closed"

\* The step in which onmessage handles a reply with status 'error'.
C16_Step ==
  \A a \in DOMAIN dp.att :
    (/\ dp'.att[a].received = dp.att[a].received + 1
     /\ dp'.att[a].last.json
     /\ dp'.att[a].last.status = "error") =>
      /\ dp'.status = "error"
      /\ dp'.error = IF dp'.att[a].last.message # NoVal
                       THEN dp'.att[a].last.message ELSE "Pairing failed"
      /\ dp'.att[a].ws = "closing"
      /\ keys' = keys

\* C16: a reply with status 'error' sets the pairing status to 'error' with
\* the remote's reason, or 'Pairing failed' without one, closes the
\* connection and writes nothing to the key store.
C16_RemoteErrorSurfaced == [][C16_Step]_vars

C16_Witness ==
  /\ dp.status = "error" /\ dp.error = "Pairing failed"
  /\ Len(dp.att) = 1
  /\ dp.att[1].last.status = "error" /\ dp.att[1].last.message = NoVal
  /\ dp.att[1].ws = "closing"
  /\ keys = {}

ConnectionFailures == {"Connection to device failed", "Connection closed unexpectedly"}

C17_Step ==
  LET a == Len(dp.att)
  IN (/\ a > 0
      /\ Len(dp'.att) = a
      /\ dp.status = "pairing"
      /\ \/ (~dp.att[a].errored /\ dp'.att[a].errored)
         \/ (dp.att[a].closed = "no" /\ dp'.att[a].closed = "unclean"))
     => /\ dp'.status = "error"
        /\ dp'.error \in ConnectionFailures

\* C17: (as claimed) an error event or an unclean close of the connection of
\* the current attempt while the status is 'pairing' sets the status to
\* 'error' with a connection-failure reason.
C17_ConnectionLossSurfaced == [][C17_Step]_vars

\* C18: (as claimed) no exception leaves the handling of a message of the
\* remote uncaught.
C18_HandlerFailuresRecovered ==
  \A a \in DOMAIN dp.att : dp.att[a].uncaught = <<>>

----------------------------------------------------------------------------
\* Properties of the key store

\* The settled writes (store, delete) of device d before entry j of the log.
KSWrites(j, d) ==
  {i \in 1..(j - 1) : /\ ks.log[i].d = d
                      /\ ks.log[i].outcome = "resolved"
                      /\ ks.log[i].op \in {"store", "delete"}}

KSLast(S) == CHOOSE x \in S : \A y \in S : y <= x

\* C19: a getMasterKey(d) that follows a storeMasterKey(k, d), with no store
\* or delete for d between them, resolves with k, whatever was done to
\* other device ids in between.
C19_RoundTrip ==
  \A j \in DOMAIN ks.log :
    LET e == ks.log[j]
        W == KSWrites(j, e.d)
    IN (e.op = "get" /\ W # {} /\ ks.log[KSLast(W)].op = "store") =>
         (e.outcome = "resolved" /\ e.result = ks.log[KSLast(W)].k)

C19_Witness ==
  /\ Len(ks.log) = 3
  /\ ks.log[1].op = "store" /\ ks.log[1].d = "D1" /\ ks.log[1].outcome = "resolved"
  /\ ks.log[2].op = "store" /\ ks.log[2].d = "D2" /\ ks.log[2].outcome = "resolved"
  /\ ks.log[2].k # ks.log[1].k
  /\ ks.log[3].op = "get" /\ ks.log[3].d = "D1" /\ ks.log[3].result = ks.log[1].k

C20_Get ==
  \A j \in DOMAIN ks.log :
    LET e == ks.log[j]
        W == KSWrites(j, e.d)
    IN e.op = "get" =>
         /\ e.outcome = "resolved"
         /\ (e.result = NoKey) <=> (W = {} \/ ks.log[KSLast(W)].op = "delete")

\* The step in which the request of a deleteMasterKey(d) settles.
C20_DeleteStep ==
  (/\ ks.queue # <<>>
   /\ ks'.queue = Tail(ks.queue)
   /\ ks.calls[Head(ks.queue)].op = "delete") =>
     LET d == ks.calls[Head(ks.queue)].d
     IN /\ ks'.log[Len(ks'.log)].outcome = "resolved"
        /\ GetRecord(keys', d) = NoKey
        /\ ~HasRecord(keys, d) => keys' = keys
        /\ \A r \in keys : r.id # RecordId(d) => r \in keys'

\* C20: getMasterKey(d) resolves, and with null exactly when d has no record
\* (never stored, or deleted since); deleteMasterKey(d) resolves, leaves no
\* record for d and, when there was none, leaves the store as it was.
C20_MissingKeyIsNull == []C20_Get /\ [][C20_DeleteStep]_vars

C20_Witness ==
  /\ Len(ks.log) = 3
  /\ ks.log[1].op = "store" /\ ks.log[1].d = "D1" /\ ks.log[1].outcome = "resolved"
  /\ ks.log[2].op = "delete" /\ ks.log[2].d = "D1"
  /\ ks.log[3].op = "get" /\ ks.log[3].d = "D1" /\ ks.log[3].result = NoKey
  /\ keys = {}

C21_AtMostOne ==
  \A d \in KSDevices : Cardinality(RecordsOf(keys, d)) <= 1

\* The step in which the request of a storeMasterKey(k, d) resolves.
C21_StoreStep ==
  (/\ ks.queue # <<>>
   /\ ks'.queue = Tail(ks.queue)
   /\ ks.calls[Head(ks.queue)].op = "store"
   /\ ks'.log[Len(ks'.log)].outcome = "resolved") =>
     LET d == ks.calls[Head(ks.queue)].d
         k == ks.calls[Head(ks.queue)].k
     IN /\ RecordsOf(keys', d) = {[id |-> RecordId(d), keyData |-> k]}
        /\ GetRecord(keys', d) = k
        /\ \A r \in keys : r.id # RecordId(d) => r \in keys'
        /\ \A r \in keys' : r.id # RecordId(d) => r \in keys
        /\ GetRecord(keys, d) = k => keys' = keys

\* C21: there is never more than one record per device id; a storeMasterKey
\* (k, d) that resolves leaves for d the one record with k, whatever record
\* d had before, and leaves the other records alone; when d already had k,
\* the store is as it was.
C21_OneRecordPerDevice == []C21_AtMostOne /\ [][C21_StoreStep]_vars

C21_Witness ==
  /\ Len(ks.log) = 3
  /\ \A j \in 1..3 : /\ ks.log[j].op = "store" /\ ks.log[j].d = "D1"
                     /\ ks.log[j].outcome = "resolved"
  /\ ks.log[1].k = RawKey("K1")
  /\ ks.log[2].k = RawKey("K2")
  /\ ks.log[3].k = RawKey("K2")
  /\ keys = {[id |-> RecordId("D1"), keyData |-> RawKey("K2")]}

\* The device ids whose last settled write before entry j of the log was a
\* store.
KSStored(j) ==
  {d \in KSDevices :
     LET W == KSWrites(j, d) IN W # {} /\ ks.log[KSLast(W)].op = "store"}

\* C22: listDevices() resolves with the device ids whose most recent
\* completed storeMasterKey / deleteMasterKey was a store, each of them once
\* and nothing else.
C22_ListIsStoredDevices ==
  \A j \in DOMAIN ks.log :
    LET e == ks.log[j]
    IN e.op = "list" =>
         /\ e.outcome = "resolved"
         /\ {e.result[i] : i \in DOMAIN e.result} = KSStored(j)
         /\ Len(e.result) = Cardinality(KSStored(j))

C22_Witness ==
  /\ Len(ks.log) = 3
  /\ ks.log[1].op = "store" /\ ks.log[1].d = "D2" /\ ks.log[1].outcome = "resolved"
  /\ ks.log[2].op = "store" /\ ks.log[2].d = "D1" /\ ks.log[2].outcome = "resolved"
  /\ ks.log[3].op = "list" /\ ks.log[3].result = <<"D1", "D2">>

\* A list that follows a store and a delete of the same device.
C22_WitnessDeleted ==
  /\ Len(ks.log) = 3
  /\ ks.log[1].op = "store" /\ ks.log[1].d = "D1" /\ ks.log[1].outcome = "resolved"
  /\ ks.log[2].op = "delete" /\ ks.log[2].d = "D1"
  /\ ks.log[3].op = "list" /\ ks.log[3].result = <<>>

\* C23: whatever the interleaving of the calls, lazy opens included, the
\* record of each device is the whole record of the last store that resolved
\* for it, or none when a delete resolved last or nothing was written:
\* writes to different devices all take effect, and of the writes to one
\* device the last one wins.
C23_ConcurrentWritesSafe ==
  \A d \in KSDevices :
    LET W == KSWrites(Len(ks.log) + 1, d)
    IN RecordsOf(keys, d) =
         IF W = {} \/ ks.log[KSLast(W)].op = "delete"
         THEN {}
         ELSE {[id |-> RecordId(d), keyData |-> ks.log[KSLast(W)].k]}

\* Two stores to different devices, both called before the database was
\* open and settled in the opposite order.
C23_Witness ==
  /\ Len(ks.calls) >= 2 /\ Len(ks.log) = 2
  /\ ks.calls[1].op = "store" /\ ks.calls[1].d = "D1" /\ ks.calls[1].lazy
  /\ ks.calls[2].op = "store" /\ ks.calls[2].d = "D2" /\ ks.calls[2].lazy
  /\ ks.log[1].d = "D2" /\ ks.log[1].outcome = "resolved"
  /\ ks.log[2].d = "D1" /\ ks.log[2].outcome = "resolved"
  /\ HasRecord(keys, "D1") /\ HasRecord(keys, "D2")

\* Two stores of different keys to one device, both called before the
\* database was open.
C23_WitnessSameDevice ==
  /\ Len(ks.calls) >= 2 /\ Len(ks.log) = 2
  /\ \A c \in 1..2 : /\ ks.calls[c].op = "store" /\ ks.calls[c].d = "D1"
                     /\ ks.calls[c].lazy
                     /\ ks.log[c].outcome = "resolved"
  /\ ks.calls[1].k # ks.calls[2].k
  /\ ks.log[1].k = ks.calls[2].k
  /\ keys = {[id |-> RecordId("D1"), keyData |-> ks.calls[1].k]}

----------------------------------------------------------------------------
\* Properties of the workers

SeedWorker(w) == w.kind \in {"stream", "crypto"}

SeedError == "Seed key must be at least 32 characters"

\* Worker i takes the next message of its queue.
Receives(i) ==
  /\ workers[i].inbox # <<>>
  /\ workers'[i].inbox = Tail(workers[i].inbox)

\* A reply is posted by worker i.
Replies(i) == Len(workers'[i].outbox) = Len(workers[i].outbox) + 1

LastReply(i) == workers'[i].outbox[Len(workers'[i].outbox)]

BadSeed(sd) == sd = NoVal \/ Len(sd) < MinSeedLen

\* An INIT without a seed of 32 characters is answered at once with the
\* ERROR, and neither a key nor a derivation comes of it.
C24_RejectStep ==
  \A i \in DOMAIN workers :
    (/\ SeedWorker(workers[i]) /\ Receives(i)
     /\ Head(workers[i].inbox).type = "INIT"
     /\ BadSeed(Head(workers[i].inbox).seedKey)) =>
       /\ workers'[i].outbox =
            Append(workers[i].outbox, [type |-> "ERROR", error |-> SeedError])
       /\ workers'[i].processorKey = workers[i].processorKey
       /\ workers'[i].pending = workers[i].pending

\* INIT_SUCCESS is posted in the step in which the derivation from a seed
\* of at least 32 characters ends, with that key in place.
C24_SuccessStep ==
  \A i \in DOMAIN workers :
    (SeedWorker(workers[i]) /\ Replies(i) /\ LastReply(i).type = "INIT_SUCCESS") =>
       \E n \in DOMAIN workers[i].pending :
         LET op == workers[i].pending[n]
         IN /\ op.op = "derive"
            /\ ~BadSeed(op.seed)
            /\ workers'[i].pending = RemoveAt(workers[i].pending, n)
            /\ workers'[i].processorKey # NoKey
            /\ workers'[i].processorKey.id = op.seed

\* C24: a seed worker answers an INIT whose seed is missing or shorter
\* than 32 characters with an ERROR, without INIT_SUCCESS and without
\* deriving a key; it posts INIT_SUCCESS only once a key has been derived
\* from a seed of at least 32 characters.
C24_InitRejectsShortSeed == [][C24_RejectStep /\ C24_SuccessStep]_vars

\* Two rejected INITs and then an accepted one, all answered.
C24_Witness ==
  \E i \in DOMAIN workers :
    /\ SeedWorker(workers[i])
    /\ workers[i].outbox = <<[type |-> "ERROR", error |-> SeedError],
                             [type |-> "ERROR", error |-> SeedError],
                             [type |-> "INIT_SUCCESS"]>>
    /\ workers[i].processorKey # NoKey

\* C25: once a seed worker has handled INIT and the derivation has
\* returned, it holds the derived key and not the seed.
C25_SeedNotRetained ==
  \A i \in DOMAIN workers :
    LET w == workers[i]
    IN (/\ SeedWorker(w)
        /\ w.processorKey # NoKey
        /\ \A n \in DOMAIN w.pending : w.pending[n].op # "derive") =>
         w.seedKey = NoVal

IsDataReply(m) == m.type \in {"processed", "PROCESS_SUCCESS", "DECRYPT_SUCCESS"}

AuthFailures == {"The operation failed",
                 "Processing failed. Verify seed key is correct.",
                 "Decryption failed. Verify seed key is correct."}

\* The awaited operation n of worker i settles in this step.
Finishes(i, n) ==
  /\ n \in DOMAIN workers[i].pending
  /\ workers'[i].pending = RemoveAt(workers[i].pending, n)
  /\ workers'[i].inbox = workers[i].inbox

\* A decryption of a buffer that was encrypted under another key, or
\* altered, ends with an error reply.
C26_FailStep ==
  \A i \in DOMAIN workers : \A n \in DOMAIN workers[i].pending :
    LET op == workers[i].pending[n]
    IN (Finishes(i, n) /\ op.op = "decrypt" /\ op.buf.encKey # op.key) =>
         /\ Replies(i)
         /\ IsWorkerError(LastReply(i))
         /\ LastReply(i).error \in AuthFailures

\* A data reply ends a decryption under the key of the buffer and carries
\* the whole of it.
C26_DataStep ==
  \A i \in DOMAIN workers :
    (Replies(i) /\ IsDataReply(LastReply(i))) =>
      \E n \in DOMAIN workers[i].pending :
        LET op == workers[i].pending[n]
        IN /\ Finishes(i, n)
           /\ op.op = "decrypt"
           /\ op.buf # NoBuf /\ op.buf # TamperedBuf
           /\ op.buf.encKey = op.key
           /\ LastReply(i).data = op.buf

\* C26: a decryption whose authentication fails (another key, or a buffer
\* of which any part was altered) is answered with an error and never with
\* data; a data reply carries the complete plaintext of the buffer.
C26_AuthFailureIsError == [][C26_FailStep /\ C26_DataStep]_vars

\* A worker that answered a decryption whose authentication failed with an
\* error, and a later decryption with the data.
C26_Witness ==
  \E i \in DOMAIN workers :
    LET out == workers[i].outbox
    IN \E a, b \in DOMAIN out :
         /\ a < b
         /\ IsWorkerError(out[a]) /\ out[a].error \in AuthFailures
         /\ IsDataReply(out[b]) /\ out[b].data # NoBuf

\* Message m cannot be satisfied by worker w as it stands: its type is
\* unknown to w, the seed, the buffer or the key is missing or too short,
\* or no key has been initialized.
Unsatisfiable(w, m) ==
  IF w.kind = "data" THEN
    \/ m.type \notin {"init", "process"}
    \/ m.type = "process" /\ (m.encodedData = NoBuf \/ m.dataKey = NoKey)
  ELSE
    \/ m.type \notin {"INIT", IF w.kind = "crypto" THEN "DECRYPT" ELSE "PROCESS"}
    \/ m.type = "INIT" /\ BadSeed(m.seedKey)
    \/ m.type \in {"DECRYPT", "PROCESS"} /\ (w.processorKey = NoKey \/ m.data = NoBuf)

\* A message that is taken is answered or its handler awaits an operation;
\* one that cannot be satisfied is answered with an error and a reason.
C27_ReceiveStep(i) ==
  Receives(i) =>
    /\ Traffic(workers'[i]) = Traffic(workers[i])
    /\ Unsatisfiable(workers[i], Head(workers[i].inbox)) =>
         /\ Replies(i)
         /\ workers'[i].pending = workers[i].pending
         /\ IsWorkerError(LastReply(i))
         /\ LastReply(i).error # NoVal

\* An awaited operation that settles is followed by one reply, an error
\* with a reason when it was a decryption that failed.
C27_FinishStep(i) ==
  \A n \in DOMAIN workers[i].pending :
    Finishes(i, n) =>
      /\ Replies(i)
      /\ LET op == workers[i].pending[n]
         IN (op.op = "decrypt" /\ op.buf.encKey # op.key) =>
              (IsWorkerError(LastReply(i)) /\ LastReply(i).error # NoVal)

\* C27: every request that cannot be satisfied (unknown type, decrypt
\* request without buffer or key, no key initialized, authentication
\* failure) is answered with exactly one error message that carries a
\* reason; no request is left without a reply.
C27_EveryRequestAnswered ==
  [][\A i \in DOMAIN workers : C27_ReceiveStep(i) /\ C27_FinishStep(i)]_vars

\* The same of the seed workers alone.
C27_SeedWorkersAnswer ==
  [][\A i \in DOMAIN workers :
       SeedWorker(workers[i]) => (C27_ReceiveStep(i) /\ C27_FinishStep(i))]_vars

----------------------------------------------------------------------------
\* What leaves the browser

\* The key material held at this moment: the private keys of the pairing
\* attempts, the master keys derived (the shared secret of the agreement),
\* stored, and read by the player.
Secrets ==
  ({PrivateKey(a) : a \in DOMAIN dp.att}
   \cup UNION {{dp.att[a].handlers[h].key : h \in DOMAIN dp.att[a].handlers} :
                a \in DOMAIN dp.att}
   \cup {r.keyData : r \in keys}
   \cup {tasks[i].cryptoKey : i \in DOMAIN tasks}) \ {NoKey}

\* The payloads sent over the pairing sockets and the requests of the
\* fetches made.
PairingSent == UNION {{dp.att[a].sent[n] : n \in DOMAIN dp.att[a].sent} : a \in DOMAIN dp.att}
FetchesMade == {FetchRequest(tasks[i]) : i \in {j \in DOMAIN tasks : tasks[j].fetched}}

\* C28: nothing sent over the pairing socket or in a content fetch is the
\* derived master key, the private key or the shared secret; all that a
\* pairing sends is the fingerprint of its public key.
C28_NoKeyOnTheWire ==
  /\ \A m \in PairingSent : m.publicKey \notin Secrets
  /\ \A r \in FetchesMade : r.url \notin Secrets /\ r.authorization \notin Secrets
  /\ \A a \in DOMAIN dp.att :
       /\ Len(dp.att[a].sent) <= 1
       /\ \A n \in DOMAIN dp.att[a].sent :
            dp.att[a].sent[n] = [publicKey |-> Fingerprint(a)]

\* A pairing stored the key it derived, the player read it and fetched.
C28_Witness ==
  /\ \E a \in DOMAIN dp.att : Len(dp.att[a].sent) = 1
  /\ \E i \in DOMAIN tasks :
       /\ tasks[i].fetched
       /\ tasks[i].cryptoKey.kind = "ecdh"
       /\ tasks[i].cryptoKey \in {r.keyData : r \in keys}

\* C29: the seed key a caller supplies is in no request sent to a server
\* and in no entry of the persistent storage.
C29_SeedStaysLocal ==
  /\ \A n \in DOMAIN svc.api.sent : svc.api.sent[n].body.seedKey = NoVal
  /\ svc.api.storage.yo3_seed_key = NoVal

----------------------------------------------------------------------------
\* Properties of the DetectionEventService

\* A reconnect is scheduled in this step.
Schedules == Len(svc'.des.timers) = Len(svc.des.timers) + 1

\* The n-th reconnect since the last open is scheduled after
\* 1000 * 2^(n-1) ms, and a sixth is not scheduled: the handlers are told.
C30_ScheduleStep ==
  /\ Schedules =>
       LET n == svc'.des.reconnectAttempts
       IN /\ n = svc.des.reconnectAttempts + 1
          /\ n <= 5
          /\ svc'.des.timers[Len(svc'.des.timers)] =
               [delay |-> 1000 * 2^(n - 1), state |-> "pending"]
  /\ \A s \in DOMAIN svc.des.socks :
       (/\ svc.des.socks[s].state # "closed"
        /\ svc'.des.socks[s].state = "closed"
        /\ svc.des.reconnectAttempts = 5) =>
         /\ ~Schedules
         /\ svc.des.handler =>
              svc'.des.notified =
                Append(svc.des.notified, "Failed to connect after multiple attempts")

C30_BackoffSchedule == [][C30_ScheduleStep]_vars

C30_Limit == svc.des.streak <= 5

\* C30: reconnect n after a close is scheduled after 1000 * 2^(n-1) ms; no
\* more than 5 reconnects in a row are made without a successful open; at
\* the limit the error handlers are notified and nothing is scheduled.
C30_ReconnectBounded == []C30_Limit /\ [][C30_ScheduleStep]_vars

\* The limit as long as disconnect() has not been called.
C30_LimitWithoutDisconnect == svc.des.disconnects = 0 => C30_Limit

\* The limit reached with a handler registered.
C30_Reached ==
  /\ svc.des.streak = 5
  /\ svc.des.notified # <<>>
  /\ svc.des.notified[Len(svc.des.notified)] = "Failed to connect after multiple attempts"
  /\ \A t \in DOMAIN svc.des.timers : svc.des.timers[t].state # "pending"

\* After disconnect() and before the next connect(): the service holds no
\* socket and no timer, is not connecting, and this step creates no socket
\* and sets no timer.
C31_DownStep ==
  (svc.des.down /\ svc'.des.down) =>
    /\ Len(svc'.des.socks) = Len(svc.des.socks)
    /\ ~Schedules
    /\ svc'.des.ws = 0
    /\ svc'.des.reconnectTimer = 0
    /\ ~svc'.des.isConnecting

\* C31: after disconnect() the service is not connected and stays so: no
\* socket is opened and no reconnect is scheduled, also not by the close
\* event of the socket that disconnect() closed, until connect() is called.
C31_DisconnectIsFinal == [][C31_DownStep]_vars

\* A socket made by a reconnect timer although disconnect() was the last call.
C31_Zombie ==
  /\ svc.des.down
  /\ svc.des.ws # 0
  /\ svc.des.socks[svc.des.ws].by = "timer"

----------------------------------------------------------------------------
\* Properties of the RequestLoggerService

\* C32: the log holds at most 100 entries, newest first, and they are
\* exactly the most recent entries logged since the last clearLogs().
C32_LogIsRecentNewestFirst ==
  LET n == Len(svc.rl.logged)
      k == IF n < 100 THEN n ELSE 100
  IN /\ Len(svc.rl.logs) = k
     /\ \A i \in 1..k : svc.rl.logs[i] = svc.rl.logged[n - i + 1]

\* More than 100 entries logged after a clearLogs() that emptied a log.
C32_Witness ==
  /\ svc.rl.clears >= 1
  /\ Len(svc.rl.logged) > 100
  /\ Len(svc.rl.logs) = 100
  /\ svc.rl.requestId > Len(svc.rl.logged)

----------------------------------------------------------------------------
\* C33: a player instance has at most one live worker at every moment,
\* also after Retry.
C33_AtMostOneLiveWorker == Cardinality(AliveWorkers) <= 1

\* Without a Retry there is at most one live worker.
C33_OneWorkerWithoutRetry ==
  (\A i \in DOMAIN tasks : i > 1 => tasks[i].session # tasks[i - 1].session) =>
    Cardinality(AliveWorkers) <= 1

\* The worker of a failed attempt alive next to the worker of the retry.
C33_RetryLeak ==
  /\ mounted
  /\ Len(tasks) = 2
  /\ tasks[2].session = tasks[1].session
  /\ AliveWorkers = {1, 2}

----------------------------------------------------------------------------
\* Invocation i, of a session that a reconfiguration has superseded, takes
\* a step.
StaleStep(i) ==
  /\ mounted
  /\ tasks[i].session < session
  /\ session' = session
  /\ Len(tasks') = Len(tasks)
  /\ tasks'[i] # tasks[i]

\* C34: the pending steps of a superseded session (key lookup, fetch,
\* worker reply) change none of status, error text, progress, blob
\* reference and media source.
C34_StaleStepsChangeNothing ==
  [][\A i \in DOMAIN tasks :
       StaleStep(i) => UNCHANGED <<status, error, progress, blobUrlRef, videoSrc>>]_vars

----------------------------------------------------------------------------
\* No load attempt starts in this step: no invocation of loadVideo is added.
SameAttempt == mounted /\ mounted' /\ Len(tasks') = Len(tasks)

C35_Range == progress \in 0..100

C35_Ready == (mounted /\ status = "ready") => (progress = 100 /\ videoSrc # 0)

C35_Monotone == [][SameAttempt => progress' >= progress]_vars

\* C35: progress is within 0..100, does not decrease within one load
\* attempt, and status 'ready' implies progress 100 and a media resource
\* attached to the video element.
C35_ProgressSound == []C35_Range /\ []C35_Ready /\ C35_Monotone

\* The same as long as the inputs have not been changed.
C35_FirstSessionReady == session <= 1 => C35_Ready
C35_FirstSessionMonotone == [][(session <= 1 /\ SameAttempt) => progress' >= progress]_vars

\* 'ready' is entered with progress 100 and a media resource attached.
C35_ReadyEntered ==
  [][(mounted' /\ status # "ready" /\ status' = "ready") =>
       (progress' = 100 /\ videoSrc' # 0)]_vars

----------------------------------------------------------------------------
\* m is the decrypt request of seed worker w.
IsSeedDecrypt(w, m) == m.type = (IF w.kind = "crypto" THEN "DECRYPT" ELSE "PROCESS")

\* An INIT of worker w has completed successfully.
InitCompleted(w) == \E n \in DOMAIN w.outbox : w.outbox[n].type = "INIT_SUCCESS"

CallInitFirst == {"Crypto key not initialized. Call INIT first.",
                  "Processor key not initialized. Call INIT first."}

\* A decrypt request taken from the queue before any INIT has completed
\* is answered at once with the ERROR, and no decryption is started.
C36_RequestStep ==
  \A i \in DOMAIN workers :
    (/\ SeedWorker(workers[i]) /\ Receives(i)
     /\ IsSeedDecrypt(workers[i], Head(workers[i].inbox))
     /\ ~InitCompleted(workers[i])) =>
       /\ Replies(i)
       /\ LastReply(i).type = "ERROR"
       /\ LastReply(i).error \in CallInitFirst
       /\ workers'[i].pending = workers[i].pending

\* Every reply with data comes after an INIT_SUCCESS.
C36_DataAfterInit ==
  \A i \in DOMAIN workers :
    SeedWorker(workers[i]) =>
      \A n \in DOMAIN workers[i].outbox :
        IsDataReply(workers[i].outbox[n]) =>
          \E k \in 1..(n - 1) : workers[i].outbox[k].type = "INIT_SUCCESS"

\* C36: a decrypt request a seed worker handles while no INIT has
\* completed successfully (none sent, rejected, or still deriving) is
\* answered with the ERROR 'Call INIT first' and never with data.
C36_NoDecryptBeforeInit == []C36_DataAfterInit /\ [][C36_RequestStep]_vars

\* Decrypt requests refused after a rejected INIT, with the derivation of
\* an accepted INIT not yet finished.
C36_Witness ==
  \E i \in DOMAIN workers :
    /\ SeedWorker(workers[i])
    /\ Len(workers[i].outbox) = 3
    /\ workers[i].outbox[1] = [type |-> "ERROR", error |-> SeedError]
    /\ workers[i].outbox[2].type = "ERROR" /\ workers[i].outbox[2].error \in CallInitFirst
    /\ workers[i].outbox[3] = workers[i].outbox[2]
    /\ Len(workers[i].pending) = 1
    /\ workers[i].pending[1].op = "derive"

----------------------------------------------------------------------------
\* A rejected INIT changes nothing of the worker but its queue and its
\* replies: key, stored seed and operations in progress are as before.
C37_RejectStep ==
  \A i \in DOMAIN workers :
    (/\ SeedWorker(workers[i]) /\ Receives(i)
     /\ Head(workers[i].inbox).type = "INIT"
     /\ BadSeed(Head(workers[i].inbox).seedKey)) =>
       workers'[i] = [workers[i] EXCEPT
                        !.inbox = Tail(@),
                        !.outbox = Append(@, [type |-> "ERROR", error |-> SeedError])]

\* A decrypt request with a buffer, taken from the queue by a worker that
\* holds a key, is decrypted with that key.
C37_DecryptStep ==
  \A i \in DOMAIN workers :
    (/\ SeedWorker(workers[i]) /\ Receives(i)
     /\ IsSeedDecrypt(workers[i], Head(workers[i].inbox))
     /\ Head(workers[i].inbox).data # NoBuf
     /\ workers[i].processorKey # NoKey) =>
       workers'[i].pending =
         Append(workers[i].pending,
                [op |-> "decrypt", key |-> workers[i].processorKey,
                 buf |-> Head(workers[i].inbox).data])

\* Once an INIT has succeeded the worker holds a key derived from an
\* accepted seed, and the seed it stores is never a rejected one.
C37_KeyKept ==
  \A i \in DOMAIN workers :
    SeedWorker(workers[i]) =>
      /\ workers[i].seedKey # ShortSeed
      /\ InitCompleted(workers[i]) =>
           /\ workers[i].processorKey # NoKey
           /\ ~BadSeed(workers[i].processorKey.id)

\* C37: a rejected INIT (seed missing or shorter than 32 characters)
\* leaves the worker's state unchanged: the key of an earlier successful
\* INIT stays in use for later decrypt requests and no seed of the
\* rejected INIT is stored.
C37_RejectedInitChangesNothing ==
  []C37_KeyKept /\ [][C37_RejectStep /\ C37_DecryptStep]_vars

\* After a successful INIT and then a rejected one the worker holds the
\* key and the seed of the first, and a decrypt request is next in its queue.
C37_Witness ==
  \E i \in DOMAIN workers :
    /\ SeedWorker(workers[i])
    /\ workers[i].outbox = <<[type |-> "INIT_SUCCESS"],
                             [type |-> "ERROR", error |-> SeedError]>>
    /\ workers[i].pending = <<>>
    /\ workers[i].processorKey # NoKey
    /\ workers[i].processorKey.id = LongSeed
    /\ workers[i].seedKey = LongSeed
    /\ workers[i].inbox # <<>>
    /\ IsSeedDecrypt(workers[i], Head(workers[i].inbox))
    /\ Decrypts(Head(workers[i].inbox).data, workers[i].processorKey)

----------------------------------------------------------------------------
\* Properties of the telemetry WebSocketClient

PendingTimers == {t \in DOMAIN svc.tc.timers : svc.tc.timers[t].state = "pending"}

\* At most one reconnect timer is pending, and it is the one the client
\* holds the handle of.
C38_OneTimer ==
  /\ Cardinality(PendingTimers) <= 1
  /\ \A t \in PendingTimers : svc.tc.reconnectTimer = t

\* A subscribe that makes the handler the only one leaves the client with
\* a socket that is connecting or open.
C38_SubscribeStep ==
  (svc'.tc.subscribes = svc.tc.subscribes + 1 /\ Cardinality(svc'.tc.handlers) = 1) =>
    /\ svc'.tc.ws # 0
    /\ svc'.tc.socks[svc'.tc.ws].state \in {"connecting", "open"}

\* The step in which the last handler unsubscribes leaves no socket held,
\* no timer pending and every socket closed or closing.
C38_UnsubscribeStep ==
  (svc.tc.handlers # {} /\ svc'.tc.handlers = {}) =>
    /\ svc'.tc.ws = 0
    /\ svc'.tc.reconnectTimer = 0
    /\ ~svc'.tc.isConnecting
    /\ \A t \in DOMAIN svc'.tc.timers : svc'.tc.timers[t].state # "pending"

\* Between the last unsubscribe and the next subscribe no socket is
\* created and no timer is set.
C38_IdleStep ==
  (svc.tc.idle /\ svc'.tc.idle) =>
    /\ Len(svc'.tc.socks) = Len(svc.tc.socks)
    /\ Len(svc'.tc.timers) = Len(svc.tc.timers)

\* C38: the first subscribe connects; after the last unsubscribe the
\* client stays closed, with no reconnect timer and no new connection,
\* until the next subscribe; at most one reconnect timer is pending.
C38_ConnectedWhileSubscribed ==
  []C38_OneTimer /\ [][C38_SubscribeStep /\ C38_UnsubscribeStep /\ C38_IdleStep]_vars

C38_TimerPart == []C38_OneTimer
C38_SubscribePart == [][C38_SubscribeStep]_vars
C38_UnsubscribePart == [][C38_UnsubscribeStep]_vars
C38_IdlePart == [][C38_IdleStep]_vars

\* A socket the client opened by itself while no handler is subscribed.
C38_Zombie ==
  /\ svc.tc.idle
  /\ svc.tc.handlers = {}
  /\ svc.tc.ws # 0
  /\ svc.tc.socks[svc.tc.ws].state = "open"

====
